---- MODULE Spec2Model ----
(***************************************************************************)
(* Stock ledger, batch balances, FIFO-by-expiry allocation, expiry         *)
(* write-off, sale creation / reversal and returns of gel-invent           *)
(* (src/app/routers/sales.py, products.py, returns.py,                     *)
(* src/app/utils/expiry.py, movement_reasons.py).                          *)
(*                                                                         *)
(* Encoding.  Decimal quantities and amounts are integers (one unit = one  *)
(* smallest step).  Dates are day numbers 1..; None is 0 for batch         *)
(* numbers, expiry dates, sale ids, unit costs and amounts.  A table is a  *)
(* sequence of rows in insertion (created_at) order.  One tenant and one   *)
(* branch are modelled; product 1 exists, product 2 does not.              *)
(***************************************************************************)
EXTENDS Integers, Sequences, FiniteSets, TLC

VARIABLES movements, sales, sale_returns, creditors, credit_transactions,
          next_sale_id, today, last_batch, last, ops,
          pc, loc, pending, unique_index

dbvars == <<movements, sales, sale_returns, creditors, credit_transactions, next_sale_id>>
convars == <<pc, loc, pending, unique_index>>
vars == <<movements, sales, sale_returns, creditors, credit_transactions,
          next_sale_id, today, last_batch, last, ops, pc, loc, pending, unique_index>>

(* ---------------------------- bounds ---------------------------------- *)
MaxQty == 2
MaxDay == 2
MaxOps == 4
MaxSales == 2
MaxReasonOps == 2
MaxItems == 2

(* ---------------------------- values ---------------------------------- *)
None == 0
MainStore == "Main Store"
NoLocation == ""
NoName == ""
ExistingProduct == 1
OtherProduct == 3
Products == {ExistingProduct, OtherProduct}
ProductCostPrice == 7

Qtys == 1..MaxQty
Days == 1..MaxDay

(* ------------------------- generic helpers ---------------------------- *)
RECURSIVE SumChange(_)
SumChange(ms) ==
  IF ms = <<>> THEN 0 ELSE Head(ms).change + SumChange(Tail(ms))

Range(s) == {s[i] : i \in DOMAIN s}

Perms(S) ==
  {f \in [1..Cardinality(S) -> S] : \A i, j \in 1..Cardinality(S) : i # j => f[i] # f[j]}

Max0(a) == IF a > 0 THEN a ELSE 0

(* ------------- the database as one value (a session's view) ----------- *)
DB ==
  [movements |-> movements, sales |-> sales, sale_returns |-> sale_returns,
   creditors |-> creditors, credit_transactions |-> credit_transactions,
   next_sale_id |-> next_sale_id]

EmptyDB ==
  [movements |-> <<>>, sales |-> <<>>, sale_returns |-> <<>>,
   creditors |-> <<>>, credit_transactions |-> <<>>, next_sale_id |-> 1]

(* sum of all movement deltas of a product: the query of sales.py 66-72,
   products.py 190-194 and 245-249 *)
ProductMovements(ms, product_id) == SelectSeq(ms, LAMBDA m : m.product_id = product_id)

TotalStock(ms, product_id) == SumChange(ProductMovements(ms, product_id))

(* ------------------- utils/expiry.py: get_batch_balances -------------- *)
BatchKeys(ms, product_id) ==
  {[batch_number |-> m.batch_number, expiry_date |-> m.expiry_date, location |-> m.location] :
     m \in {x \in Range(ms) : x.product_id = product_id /\ x.batch_number # None}}

GroupBalance(ms, product_id, k) ==
  SumChange(SelectSeq(ms, LAMBDA m : /\ m.product_id = product_id
                                     /\ m.batch_number = k.batch_number
                                     /\ m.expiry_date = k.expiry_date
                                     /\ m.location = k.location))

get_batch_balances(ms, product_id, include_null_expiry) ==
  {[batch_number |-> k.batch_number, expiry_date |-> k.expiry_date,
    location |-> k.location, balance |-> GroupBalance(ms, product_id, k)] :
     k \in {x \in BatchKeys(ms, product_id) : include_null_expiry \/ x.expiry_date # None}}

(* latest known unit cost of a batch: the most recent stock-in movement of
   that batch_number (expiry.py 131-141, sales.py 128-149) *)
StockIns(ms, product_id, batch_number) ==
  SelectSeq(ms, LAMBDA m : /\ m.product_id = product_id
                           /\ m.batch_number = batch_number
                           /\ m.change > 0)

LatestUnitCost(ms, product_id, batch_number) ==
  LET ins == StockIns(ms, product_id, batch_number)
  IN IF ins = <<>> THEN None ELSE ins[Len(ins)].unit_cost_price

(* ---------------- utils/expiry.py: writeoff_expired_batches ----------- *)
(* variant: a batch is written off on its expiry day already *)
WriteoffEligible_Inclusive(b, day) == b.expiry_date # None /\ b.expiry_date <= day

WriteoffEligible(b, day) == b.expiry_date # None /\ b.expiry_date < day

ExpiredRows(ms, product_id, day) ==
  {b \in get_batch_balances(ms, product_id, FALSE) : WriteoffEligible(b, day) /\ b.balance > 0}

(* variant: the compensating movement does not carry the batch's expiry date *)
ExpiredMovement_NoExpiry(ms, b, product_id) ==
  [product_id |-> product_id, sale_id |-> None, change |-> 0 - b.balance,
   reason |-> "Expired", batch_number |-> b.batch_number, expiry_date |-> None,
   unit_cost_price |-> LatestUnitCost(ms, product_id, b.batch_number),
   unit_selling_price |-> None,
   location |-> IF b.location = NoLocation THEN MainStore ELSE b.location]

ExpiredMovement(ms, b, product_id) ==
  [product_id |-> product_id, sale_id |-> None, change |-> 0 - b.balance,
   reason |-> "Expired", batch_number |-> b.batch_number, expiry_date |-> b.expiry_date,
   unit_cost_price |-> LatestUnitCost(ms, product_id, b.batch_number),
   unit_selling_price |-> None,
   location |-> IF b.location = NoLocation THEN MainStore ELSE b.location]

(* the rows of one run share their created_at; they are appended in the
   order batch_number, expiry_date *)
RowBefore(a, b) ==
  \/ a.batch_number < b.batch_number
  \/ a.batch_number = b.batch_number /\ a.expiry_date <= b.expiry_date

RECURSIVE OrderedRows(_)
OrderedRows(S) ==
  IF S = {} THEN <<>>
  ELSE LET a == CHOOSE x \in S : \A y \in S : RowBefore(x, y)
       IN <<a>> \o OrderedRows(S \ {a})

WriteoffMovements(ms, product_id, day) ==
  LET rows == OrderedRows(ExpiredRows(ms, product_id, day))
  IN [i \in 1..Len(rows) |-> ExpiredMovement(ms, rows[i], product_id)]

(* variant: the write-off is skipped *)
writeoff_expired_batches_Skipped(ms, product_id, day) == ms

writeoff_expired_batches(ms, product_id, day) == ms \o WriteoffMovements(ms, product_id, day)

(* expiry.py 128-156 when the storage raises during the cost lookup of the
   batches in failing: the except clause leaves unit_cost_price None and the
   Expired movement is added all the same *)
WriteoffMovementsFailing(ms, product_id, day, failing) ==
  LET rows == OrderedRows(ExpiredRows(ms, product_id, day))
  IN [i \in 1..Len(rows) |->
        IF rows[i].batch_number \in failing
        THEN [ExpiredMovement(ms, rows[i], product_id) EXCEPT !.unit_cost_price = None]
        ELSE ExpiredMovement(ms, rows[i], product_id)]

(* ------------------------ routers/sales.py: create_sale --------------- *)
(* variant: a batch expiring today is no longer sold *)
SaleEligible_Strict(b, day) == b.expiry_date = None \/ b.expiry_date > day

SaleEligible(b, day) == b.expiry_date = None \/ b.expiry_date >= day

AvailableBatches(ms, product_id, day) ==
  {b \in get_batch_balances(ms, product_id, TRUE) : b.balance > 0 /\ SaleEligible(b, day)}

(* variant: batches without expiry date sort first *)
SortKeyLeq_NullFirst(a, b) ==
  \/ a.expiry_date = None
  \/ a.expiry_date # None /\ b.expiry_date # None /\ a.expiry_date <= b.expiry_date

(* sort key of sales.py 117-122: (1 if no expiry else 0, expiry or date.max) *)
SortKeyLeq(a, b) ==
  \/ a.expiry_date # None /\ b.expiry_date = None
  \/ a.expiry_date = None /\ b.expiry_date = None
  \/ a.expiry_date # None /\ b.expiry_date # None /\ a.expiry_date <= b.expiry_date

(* list.sort is stable and the query has no ORDER BY: rows with equal keys
   come in any order *)
SortedOrders(S) ==
  {f \in Perms(S) : \A i, j \in 1..Cardinality(S) : i < j => SortKeyLeq(f[i], f[j])}

Take(balance, remaining) == IF balance <= remaining THEN balance ELSE remaining

(* the loop of sales.py 151-184: <<batch, take>> pairs in walk order *)
RECURSIVE Allocate(_, _)
Allocate(bs, remaining) ==
  IF bs = <<>> \/ remaining <= 0 THEN <<>>
  ELSE LET b == Head(bs)
           take == Take(b.balance, remaining)
       IN IF take <= 0 THEN Allocate(Tail(bs), remaining)
          ELSE <<[batch |-> b, take |-> take]>> \o Allocate(Tail(bs), remaining - take)

RECURSIVE SumTake(_)
SumTake(al) == IF al = <<>> THEN 0 ELSE Head(al).take + SumTake(Tail(al))

BatchSaleMovement(ms, p, sale_id, a) ==
  [product_id |-> p.product_id, sale_id |-> sale_id, change |-> 0 - a.take,
   reason |-> "Sale", batch_number |-> a.batch.batch_number,
   expiry_date |-> a.batch.expiry_date,
   unit_cost_price |-> IF a.batch.batch_number # None
                       THEN LatestUnitCost(ms, p.product_id, a.batch.batch_number)
                       ELSE ProductCostPrice,
   unit_selling_price |-> p.unit_price,
   location |-> IF a.batch.location = NoLocation THEN MainStore ELSE a.batch.location]

(* variant: the remainder movement deducts the whole quantity *)
RemainderMovement_Whole(p, sale_id, remaining) ==
  [product_id |-> p.product_id, sale_id |-> sale_id, change |-> 0 - p.quantity,
   reason |-> "Sale", batch_number |-> None, expiry_date |-> None,
   unit_cost_price |-> ProductCostPrice, unit_selling_price |-> p.unit_price,
   location |-> MainStore]

RemainderMovement(p, sale_id, remaining) ==
  [product_id |-> p.product_id, sale_id |-> sale_id, change |-> 0 - remaining,
   reason |-> "Sale", batch_number |-> None, expiry_date |-> None,
   unit_cost_price |-> ProductCostPrice, unit_selling_price |-> p.unit_price,
   location |-> MainStore]

SaleMovements(ms, p, sale_id, order) ==
  LET al == Allocate(order, p.quantity)
      remaining == p.quantity - SumTake(al)
  IN [i \in 1..Len(al) |-> BatchSaleMovement(ms, p, sale_id, al[i])]
     \o (IF remaining > 0 THEN <<RemainderMovement(p, sale_id, remaining)>> ELSE <<>>)

(* sales.py 218-232 *)
CreditAmount(p) ==
  IF p.payment_method = "credit" THEN p.total_price
  ELSE IF p.payment_method = "partial" /\ p.amount_paid # None /\ p.amount_paid # 0
       THEN p.total_price - p.amount_paid
       ELSE 0

PartialRejected(p) ==
  /\ p.payment_method = "partial" /\ p.amount_paid # None /\ p.amount_paid # 0
  /\ CreditAmount(p) <= 0

CreditorIndex(cs, name) ==
  IF \E i \in DOMAIN cs : cs[i].name = name
  THEN CHOOSE i \in DOMAIN cs : cs[i].name = name /\ \A j \in DOMAIN cs : cs[j].name = name => i <= j
  ELSE 0

(* variant: the upfront amount of a partial sale is booked as a payment too *)
UpfrontPayment_AnyMethod(p) ==
  p.amount_paid # None /\ p.amount_paid # 0 /\ p.amount_paid > 0

UpfrontPayment(p) ==
  p.payment_method = "credit" /\ p.amount_paid # None /\ p.amount_paid # 0 /\ p.amount_paid > 0

(* sales.py 234-306: creditor and credit transactions of a new sale *)
SaleCreditors(cs, p) ==
  LET credit_amount == CreditAmount(p)
      i == CreditorIndex(cs, p.customer_name)
      debt == credit_amount - (IF UpfrontPayment(p) THEN p.amount_paid ELSE 0)
  IN IF ~(credit_amount > 0 /\ p.customer_name # NoName) THEN cs
     ELSE IF i = 0 THEN Append(cs, [name |-> p.customer_name, total_debt |-> debt])
     ELSE [cs EXCEPT ![i].total_debt = @ + debt]

(* variant: the debt entry of a credit sale holds only the remainder *)
SaleCreditTransactions_DebtRemainder(cs, txs, p, sale_id) ==
  LET credit_amount == CreditAmount(p)
      i == CreditorIndex(cs, p.customer_name)
      cid == IF i = 0 THEN Len(cs) + 1 ELSE i
  IN IF ~(credit_amount > 0 /\ p.customer_name # NoName) THEN txs
     ELSE txs \o <<[creditor_id |-> cid, sale_id |-> sale_id,
                    amount |-> credit_amount - (IF UpfrontPayment(p) THEN p.amount_paid ELSE 0),
                    transaction_type |-> "debt"]>>
              \o (IF UpfrontPayment(p)
                  THEN <<[creditor_id |-> cid, sale_id |-> sale_id, amount |-> p.amount_paid,
                          transaction_type |-> "payment"]>>
                  ELSE <<>>)

SaleCreditTransactions(cs, txs, p, sale_id) ==
  LET credit_amount == CreditAmount(p)
      i == CreditorIndex(cs, p.customer_name)
      cid == IF i = 0 THEN Len(cs) + 1 ELSE i
  IN IF ~(credit_amount > 0 /\ p.customer_name # NoName) THEN txs
     ELSE txs \o <<[creditor_id |-> cid, sale_id |-> sale_id, amount |-> credit_amount,
                    transaction_type |-> "debt"]>>
              \o (IF UpfrontPayment(p)
                  THEN <<[creditor_id |-> cid, sale_id |-> sale_id, amount |-> p.amount_paid,
                          transaction_type |-> "payment"]>>
                  ELSE <<>>)

(* variant: the lookup never finds the earlier sale *)
ExistingSales_NotFound(ss, client_sale_id) ==
  SelectSeq(ss, LAMBDA s : s.client_sale_id = client_sale_id /\ s.id = None)

ExistingSales(ss, client_sale_id) ==
  SelectSeq(ss, LAMBDA s : s.client_sale_id = client_sale_id)

SaleRow(p, sale_id) ==
  [id |-> sale_id, product_id |-> p.product_id, quantity |-> p.quantity,
   unit_price |-> p.unit_price, total_price |-> p.total_price,
   customer_name |-> p.customer_name, payment_method |-> p.payment_method,
   amount_paid |-> p.amount_paid, client_sale_id |-> p.client_sale_id]

(* variant: the pending write-off is not flushed before the stock is summed *)
SaleAvailableStock_NoFlush(ms, product_id, day) == TotalStock(ms, product_id)

(* available_stock of sales.py 66-74: read after the write-off of lines
   34-41 was flushed into the session *)
SaleAvailableStock(ms, product_id, day) ==
  TotalStock(writeoff_expired_batches(ms, product_id, day), product_id)

(* variant: the request is validated before the earlier sale is looked up *)
IsReplay_AfterValidation(db, p, day) ==
  /\ p.client_sale_id # None
  /\ ExistingSales(db.sales, p.client_sale_id) # <<>>
  /\ p.product_id \in Products
  /\ p.quantity <= SaleAvailableStock(db.movements, p.product_id, day)

(* sales.py 43-53: the idempotency check, before the product lookup and the
   stock check *)
IsReplay(db, p, day) ==
  /\ p.client_sale_id # None
  /\ ExistingSales(db.sales, p.client_sale_id) # <<>>

(* One call of create_sale on the session view db.  day1 is date.today() in
   writeoff_expired_batches (expiry.py 92), day2 the one of sales.py 102,
   order the sorted available batches.  The result holds the session view
   at return, whether db.commit() was reached, and the outcome. *)
create_sale(db, p, day1, day2, order) ==
  LET ms1 == writeoff_expired_batches(db.movements, p.product_id, day1)
      flushed == [db EXCEPT !.movements = ms1]
      existing == ExistingSales(db.sales, p.client_sale_id)
      sale_id == db.next_sale_id
  IN IF IsReplay(db, p, day1)
     THEN [db |-> flushed, commit |-> FALSE, result |-> "replay", sale_id |-> existing[1].id]
     ELSE IF p.product_id \notin Products
     THEN [db |-> flushed, commit |-> FALSE, result |-> "not_found", sale_id |-> None]
     ELSE IF p.quantity > SaleAvailableStock(db.movements, p.product_id, day1)
     THEN [db |-> flushed, commit |-> FALSE, result |-> "insufficient_stock", sale_id |-> None]
     ELSE IF PartialRejected(p)
     THEN [db |-> [flushed EXCEPT !.sales = Append(@, SaleRow(p, sale_id)),
                                  !.movements = @ \o SaleMovements(ms1, p, sale_id, order)],
           commit |-> FALSE, result |-> "partial_rejected", sale_id |-> None]
     ELSE [db |-> [movements |-> ms1 \o SaleMovements(ms1, p, sale_id, order),
                   sales |-> Append(db.sales, SaleRow(p, sale_id)),
                   sale_returns |-> db.sale_returns,
                   creditors |-> SaleCreditors(db.creditors, p),
                   credit_transactions |->
                     SaleCreditTransactions(db.creditors, db.credit_transactions, p, sale_id),
                   next_sale_id |-> sale_id + 1],
           commit |-> TRUE, result |-> "created", sale_id |-> sale_id]

(* --------------------- routers/sales.py: create_sales_bulk ------------ *)
(* variant: what the session had flushed stays in the store *)
SessionClosed_Flushed(session, committed) == session

(* the store after the request returned or raised: the session is closed and
   what was not committed is discarded (database.py 59-65) *)
SessionClosed(session, committed) == committed

(* sales.py 331-341: the items run one after the other through create_sale on
   the request's one session.  session is the session's view, committed the
   store as last committed, results the outcomes so far.  A created item
   commits everything the session holds; a replayed item returns without
   commit or rollback; an item that raises ends the request.  An empty list
   is refused at lines 328-329 and is not submitted here.  The value is the
   set of possible outcomes, one for each order in which equal sort keys may
   come. *)
RECURSIVE create_sales_bulk(_, _, _, _, _)
create_sales_bulk(session, committed, payloads, day, results) ==
  IF payloads = <<>>
  THEN {[db |-> SessionClosed(session, committed), results |-> results]}
  ELSE LET p == Head(payloads)
           orders == SortedOrders(AvailableBatches(
                       writeoff_expired_batches(session.movements, p.product_id, day),
                       p.product_id, day))
       IN UNION {LET r == create_sale(session, p, day, day, order)
                 IN IF r.result = "replay"
                    THEN create_sales_bulk(r.db, committed, Tail(payloads), day,
                                           Append(results, r.result))
                    ELSE IF r.commit
                    THEN create_sales_bulk(r.db, r.db, Tail(payloads), day,
                                           Append(results, r.result))
                    ELSE {[db |-> SessionClosed(r.db, committed),
                           results |-> Append(results, r.result)]} :
                 order \in orders}

(* ------------------- utils/movement_reasons.py ------------------------ *)
(* _norm = strip and lower-case, tabulated on the spellings the clients of
   the model submit *)
NormTable ==
  [r \in {"Initial Stock", "New Stock", "Restock", " Stock Transfer In ",
          "Expired", " Damaged ", "LOST", "Lost/Stolen", "Write-Off", "spoiled",
          "Destroyed", "Stock Transfer Out",
          "Stock Count", "Correction", "adjustment", "Inventory Correction",
          "Returned", " Returned by customer ", "Not returned",
          "Sale", "Gift", "   ", ""} |->
     CASE r = "Initial Stock" -> "initial stock"
       [] r = "New Stock" -> "new stock"
       [] r = "Restock" -> "restock"
       [] r = " Stock Transfer In " -> "stock transfer in"
       [] r = "Expired" -> "expired"
       [] r = " Damaged " -> "damaged"
       [] r = "LOST" -> "lost"
       [] r = "Lost/Stolen" -> "lost/stolen"
       [] r = "Write-Off" -> "write-off"
       [] r = "spoiled" -> "spoiled"
       [] r = "Destroyed" -> "destroyed"
       [] r = "Stock Transfer Out" -> "stock transfer out"
       [] r = "Stock Count" -> "stock count"
       [] r = "Correction" -> "correction"
       [] r = "adjustment" -> "adjustment"
       [] r = "Inventory Correction" -> "inventory correction"
       [] r = "Returned" -> "returned"
       [] r = " Returned by customer " -> "returned by customer"
       [] r = "Not returned" -> "not returned"
       [] r = "Sale" -> "sale"
       [] r = "Gift" -> "gift"
       [] r = "   " -> ""
       [] r = "" -> ""]

Norm(reason) == NormTable[reason]

PositiveOnly == {"initial stock", "new stock", "restock", "stock transfer in"}
NegativeOnly == {"expired", "damaged", "lost", "lost/stolen", "write-off", "spoiled",
                 "destroyed", "stock transfer out"}
AdjustmentReasons == {"stock count", "correction", "adjustment", "inventory correction"}

(* r.startswith("returned"), on the normalized reasons of the table *)
is_return(r) == r \in {"returned", "returned by customer"}

(* variant: a positive-only reason or a return admits a delta of zero *)
validate_reason_and_change_ZeroAdmitted(reason, change) ==
  LET r == Norm(reason)
  IN \/ r = ""
     \/ is_return(r) /\ change < 0
     \/ r \in PositiveOnly /\ change < 0
     \/ r \in NegativeOnly /\ change >= 0

(* TRUE iff validate_reason_and_change returns an error message *)
validate_reason_and_change(reason, change) ==
  LET r == Norm(reason)
  IN \/ r = ""
     \/ is_return(r) /\ change <= 0
     \/ r \in PositiveOnly /\ change <= 0
     \/ r \in NegativeOnly /\ change >= 0

(* ------------------ routers/products.py: record_movement -------------- *)
(* no SystemSettings row: _uses_expiry_tracking answers True *)
uses_expiry_tracking == TRUE

ManualMovement(product_id, pl, batch_number) ==
  [product_id |-> product_id, sale_id |-> None, change |-> pl.change,
   reason |-> pl.reason, batch_number |-> batch_number, expiry_date |-> pl.expiry_date,
   unit_cost_price |-> pl.unit_cost_price, unit_selling_price |-> None,
   location |-> MainStore]

(* variant: the stock is summed without the expired batches written off *)
MovementAvailableStock_BeforeWriteoff(ms, product_id, day) == TotalStock(ms, product_id)

(* available_stock of products.py 244-251: read after the write-off of lines
   215-223 was committed *)
MovementAvailableStock(ms, product_id, day) ==
  TotalStock(writeoff_expired_batches(ms, product_id, day), product_id)

(* generated is the batch number BATCH-<sku>-<timestamp> of products.py 261-262.
   The write-off of lines 216-223 is committed whatever happens next. *)
record_movement(db, product_id, pl, day, generated) ==
  LET ms1 == writeoff_expired_batches(db.movements, product_id, day)
      written == [db EXCEPT !.movements = ms1]
  IN IF product_id \notin Products
     THEN [db |-> written, result |-> "not_found"]
     ELSE IF validate_reason_and_change(pl.reason, pl.change)
     THEN [db |-> written, result |-> "invalid_reason"]
     ELSE IF uses_expiry_tracking /\ Norm(pl.reason) = "new stock" /\ pl.expiry_date = None
     THEN [db |-> written, result |-> "expiry_required"]
     ELSE IF pl.change < 0
             /\ (0 - pl.change) > MovementAvailableStock(db.movements, product_id, day)
     THEN [db |-> written, result |-> "insufficient_stock"]
     ELSE [db |-> [written EXCEPT !.movements =
                     Append(@, ManualMovement(product_id, pl,
                                 IF pl.change > 0 THEN generated ELSE pl.batch_number))],
           result |-> "created"]

(* ------------------- routers/returns.py: create_return ---------------- *)
RECURSIVE SumReturned(_)
SumReturned(rs) ==
  IF rs = <<>> THEN 0 ELSE Head(rs).quantity_returned + SumReturned(Tail(rs))

(* variant: only the restocked returns are counted *)
AlreadyReturned_Restocked(rs, sale_id) ==
  SumReturned(SelectSeq(rs, LAMBDA r : r.sale_id = sale_id /\ r.restock))

AlreadyReturned(rs, sale_id) == SumReturned(SelectSeq(rs, LAMBDA r : r.sale_id = sale_id))

SaleById(ss, sale_id) == SelectSeq(ss, LAMBDA s : s.id = sale_id)

(* variant: the restock movement is not linked to the sale *)
ReturnMovement_Unlinked(sale, pl) ==
  [product_id |-> sale.product_id, sale_id |-> None, change |-> pl.quantity_returned,
   reason |-> "Customer Return", batch_number |-> None, expiry_date |-> None,
   unit_cost_price |-> None, unit_selling_price |-> None, location |-> MainStore]

ReturnMovement(sale, pl) ==
  [product_id |-> sale.product_id, sale_id |-> sale.id, change |-> pl.quantity_returned,
   reason |-> "Customer Return", batch_number |-> None, expiry_date |-> None,
   unit_cost_price |-> None, unit_selling_price |-> None, location |-> MainStore]

DebtTransactions(txs, sale_id) ==
  SelectSeq(txs, LAMBDA t : t.sale_id = sale_id /\ t.transaction_type = "debt")

create_return(db, pl) ==
  LET found == SaleById(db.sales, pl.sale_id)
      sale == found[1]
      remaining_returnable == sale.quantity - AlreadyReturned(db.sale_returns, pl.sale_id)
      debts == DebtTransactions(db.credit_transactions, pl.sale_id)
      to_account == /\ sale.payment_method = "credit"
                    /\ pl.refund_method = "credit_to_account"
                    /\ debts # <<>>
      cid == debts[1].creditor_id
  IN IF found = <<>> THEN [db |-> db, result |-> "not_found"]
     ELSE IF pl.quantity_returned > remaining_returnable
     THEN [db |-> db, result |-> "rejected"]
     ELSE [db |->
             [db EXCEPT
                !.sale_returns = Append(@, [sale_id |-> pl.sale_id,
                                            quantity_returned |-> pl.quantity_returned,
                                            refund_amount |-> pl.refund_amount,
                                            refund_method |-> pl.refund_method,
                                            restock |-> pl.restock]),
                !.movements = IF pl.restock THEN Append(@, ReturnMovement(sale, pl)) ELSE @,
                !.credit_transactions =
                   IF to_account
                   THEN Append(@, [creditor_id |-> cid, sale_id |-> sale.id,
                                   amount |-> pl.refund_amount,
                                   transaction_type |-> "payment"])
                   ELSE @,
                !.creditors =
                   IF to_account
                   THEN [@ EXCEPT ![cid].total_debt = Max0(@ - pl.refund_amount)]
                   ELSE @],
           result |-> "created"]

(* --------------------- routers/sales.py: delete_sale ------------------ *)
ReversalMovement(sale) ==
  [product_id |-> sale.product_id, sale_id |-> None, change |-> sale.quantity,
   reason |-> "Sale Reversal", batch_number |-> None, expiry_date |-> None,
   unit_cost_price |-> None, unit_selling_price |-> None, location |-> MainStore]

(* sales.py 452-459: undo every credit transaction linked to the sale *)
RECURSIVE ReverseCredit(_, _)
ReverseCredit(cs, txs) ==
  IF txs = <<>> THEN cs
  ELSE LET t == Head(txs)
           cs1 == IF t.creditor_id \in DOMAIN cs
                  THEN [cs EXCEPT ![t.creditor_id].total_debt =
                          IF t.transaction_type = "debt" THEN @ - t.amount ELSE @ + t.amount]
                  ELSE cs
       IN ReverseCredit(cs1, Tail(txs))

(* variant: the stock is restored by one lump Sale Reversal movement and the
   sale's movements stay *)
delete_sale_Lump(db, sale_id) ==
  LET found == SaleById(db.sales, sale_id)
      sale == found[1]
      on_credit == sale.payment_method \in {"credit", "partial"}
      txns == SelectSeq(db.credit_transactions, LAMBDA t : t.sale_id = sale_id)
  IN IF found = <<>> THEN [db |-> db, result |-> "not_found"]
     ELSE [db |->
             [db EXCEPT
                !.movements = Append(@, ReversalMovement(sale)),
                !.creditors = IF on_credit THEN ReverseCredit(@, txns) ELSE @,
                !.credit_transactions =
                   IF on_credit THEN SelectSeq(@, LAMBDA t : t.sale_id # sale_id) ELSE @,
                !.sales = SelectSeq(@, LAMBDA s : s.id # sale_id)],
           result |-> "deleted"]

(* variant: only the deductions count as the sale's movements *)
LinkedToSale_Deduction(m, sale_id) == m.sale_id = sale_id /\ m.change < 0

(* sales.py 419-425: the movements that carry the sale's id *)
LinkedToSale(m, sale_id) == m.sale_id = sale_id

delete_sale(db, sale_id) ==
  LET found == SaleById(db.sales, sale_id)
      sale == found[1]
      sale_movements == SelectSeq(db.movements, LAMBDA m : LinkedToSale(m, sale_id))
      on_credit == sale.payment_method \in {"credit", "partial"}
      txns == SelectSeq(db.credit_transactions, LAMBDA t : t.sale_id = sale_id)
  IN IF found = <<>> THEN [db |-> db, result |-> "not_found"]
     ELSE [db |->
             [db EXCEPT
                !.movements = IF sale_movements # <<>>
                              THEN SelectSeq(@, LAMBDA m : ~LinkedToSale(m, sale_id))
                              ELSE Append(@, ReversalMovement(sale)),
                !.creditors = IF on_credit THEN ReverseCredit(@, txns) ELSE @,
                !.credit_transactions =
                   IF on_credit THEN SelectSeq(@, LAMBDA t : t.sale_id # sale_id) ELSE @,
                !.sales = SelectSeq(@, LAMBDA s : s.id # sale_id)],
           result |-> "deleted"]

(* ======================= sequential requests ========================== *)
SetDB(d) ==
  /\ movements' = d.movements
  /\ sales' = d.sales
  /\ sale_returns' = d.sale_returns
  /\ creditors' = d.creditors
  /\ credit_transactions' = d.credit_transactions
  /\ next_sale_id' = d.next_sale_id

WithinBounds(d) == d.next_sale_id <= MaxSales + 1

(* every request counts as one operation; MaxOps bounds the run *)
Tick ==
  /\ ops < MaxOps
  /\ ops' = ops + 1

(* the requests the clients of the model submit *)
CashPayment ==
  [payment_method |-> "cash", customer_name |-> NoName, total_price |-> 2, amount_paid |-> None]

TxOf(txs, sale_id) == SelectSeq(txs, LAMBDA t : t.sale_id = sale_id)

(* what the customer called name owes; 0 when there is no such creditor *)
BalanceOf(cs, name) ==
  IF \E i \in DOMAIN cs : cs[i].name = name
  THEN cs[CHOOSE i \in DOMAIN cs : cs[i].name = name].total_debt
  ELSE 0

(* the last request and its outcome: what the client sent and got back.  pay
   is the payment part of a sale payload, ret the refund part of a return
   payload, pre the committed movements a created sale started from, reason
   the reason of a manual movement, items the payloads of a bulk submission
   and results the outcome of each item that ran, failed the batches whose
   cost lookup raised during the request's write-off, and owed[s] what the
   customer of sale s owed when the request that created sale s arrived *)
Last(op, result, sale_id, qty, csid, pid) ==
  [op |-> op, result |-> result, sale_id |-> sale_id, qty |-> qty, csid |-> csid, pid |-> pid,
   pay |-> CashPayment,
   ret |-> [refund_method |-> "cash", refund_amount |-> 0, restock |-> FALSE],
   pre |-> <<>>,
   reason |-> "",
   items |-> <<>>,
   results |-> <<>>,
   failed |-> {},
   owed |-> [s \in 1..MaxSales |-> 0]]

(* owed is a history: every request carries it on *)
Kept(l) == [l EXCEPT !.owed = last.owed]

CreditPayment ==
  [payment_method |-> "credit", customer_name |-> "Ama", total_price |-> 2, amount_paid |-> None]

Payments == {CashPayment, CreditPayment}

SalePayload(product_id, quantity, client_sale_id, pay) ==
  [product_id |-> product_id, quantity |-> quantity, unit_price |-> 3,
   total_price |-> pay.total_price, customer_name |-> pay.customer_name,
   payment_method |-> pay.payment_method, amount_paid |-> pay.amount_paid,
   client_sale_id |-> client_sale_id]

SalePayloads ==
  {SalePayload(ExistingProduct, q, c, pay) : q \in 1..(MaxQty + 1), c \in {None, 1}, pay \in Payments}
  \cup {SalePayload(2, 1, 1, CashPayment)}

(* the expiry dates a client may repeat when naming batch b *)
BatchExpiries(b) ==
  {m.expiry_date : m \in {x \in Range(movements) : x.batch_number = b /\ x.change > 0}}

MovementPayloads ==
  {[change |-> q, reason |-> "New Stock", batch_number |-> None, expiry_date |-> e,
    unit_cost_price |-> 5] : q \in Qtys, e \in Days \cup {None}}
  \cup {[change |-> q, reason |-> "Restock", batch_number |-> None, expiry_date |-> None,
         unit_cost_price |-> None] : q \in Qtys}
  \cup {[change |-> 0 - q, reason |-> " Damaged ", batch_number |-> None, expiry_date |-> None,
         unit_cost_price |-> None] : q \in Qtys}
  \cup UNION {{[change |-> 0 - q, reason |-> " Damaged ", batch_number |-> b, expiry_date |-> e,
                unit_cost_price |-> None] : q \in Qtys, e \in {None} \cup BatchExpiries(b)} :
              b \in 1..last_batch}
  \cup {[change |-> 1, reason |-> r, batch_number |-> None, expiry_date |-> None,
         unit_cost_price |-> None] : r \in {" Damaged ", "   "}}

ReturnPayloads ==
  [sale_id : 1..MaxSales, quantity_returned : Qtys, refund_amount : {1},
   refund_method : {"cash"}, restock : BOOLEAN]

Init ==
  /\ movements = <<>>
  /\ sales = <<>>
  /\ sale_returns = <<>>
  /\ creditors = <<>>
  /\ credit_transactions = <<>>
  /\ next_sale_id = 1
  /\ today = 1
  /\ last_batch = 0
  /\ ops = 0
  /\ last = Last("init", "none", None, 0, None, None)
  /\ pc = <<>>
  /\ loc = <<>>
  /\ pending = <<>>
  /\ unique_index = TRUE

(* POST /sales: one request in its own session; the session is closed when
   the handler returns or raises, which discards whatever was not committed
   (database.py 59-65).  The clock may pass midnight between the two reads
   of date.today(). *)
CreateSale(p, day2) ==
  /\ Tick
  /\ day2 \in {today, today + 1} \cap Days
  /\ \E order \in SortedOrders(AvailableBatches(
                    writeoff_expired_batches(movements, p.product_id, today),
                    p.product_id, day2)) :
       LET r == create_sale(DB, p, today, day2, order)
       IN /\ r.commit => WithinBounds(r.db)
          /\ IF r.commit THEN SetDB(r.db) ELSE UNCHANGED dbvars
          /\ last' = [Last("create_sale", r.result, r.sale_id, p.quantity,
                            p.client_sale_id, p.product_id)
                         EXCEPT !.pay = [payment_method |-> p.payment_method,
                                         customer_name |-> p.customer_name,
                                         total_price |-> p.total_price,
                                         amount_paid |-> p.amount_paid],
                                !.pre = IF r.commit THEN movements ELSE <<>>,
                                !.owed = IF r.result = "created"
                                         THEN [last.owed EXCEPT ![r.sale_id] =
                                                 BalanceOf(creditors, p.customer_name)]
                                         ELSE last.owed]
  /\ today' = day2
  /\ UNCHANGED <<last_batch, convars>>

(* POST /products/{id}/movements.  Two stock-ins of one product in the same
   second get the same generated batch number. *)
RecordMovement(product_id, pl, same_second) ==
  LET generated == IF same_second /\ last_batch > 0 THEN last_batch ELSE last_batch + 1
      r == record_movement(DB, product_id, pl, today, generated)
  IN /\ Tick
     /\ WithinBounds(r.db)
     /\ SetDB(r.db)
     /\ last_batch' = IF r.result = "created" /\ pl.change > 0 THEN generated ELSE last_batch
     /\ last' = [Kept(Last("record_movement", r.result, None, pl.change, None, product_id))
                    EXCEPT !.reason = pl.reason]
     /\ UNCHANGED <<today, convars>>

(* GET /products and GET /products/{id}: write-off, commit, then report
   max(0, sum of deltas) (products.py 117-125, 150-155, 169-176, 190-196) *)
ListProducts ==
  LET ms1 == writeoff_expired_batches(
               writeoff_expired_batches(movements, ExistingProduct, today),
               OtherProduct, today)
  IN /\ Tick
     /\ movements' = ms1
     /\ last' = Kept(Last("list_products", "ok", None,
                          Max0(TotalStock(ms1, ExistingProduct)), None, None))
     /\ UNCHANGED <<sales, sale_returns, creditors, credit_transactions, next_sale_id,
                    today, last_batch, convars>>

CreateReturn(pl) ==
  LET r == create_return(DB, pl)
  IN /\ Tick
     /\ WithinBounds(r.db)
     /\ SetDB(r.db)
     /\ last' = [Kept(Last("create_return", r.result, pl.sale_id, pl.quantity_returned,
                                  None, None))
                    EXCEPT !.ret = [refund_method |-> pl.refund_method,
                                    refund_amount |-> pl.refund_amount,
                                    restock |-> pl.restock],
                           \* the ledger from before the sale, kept while the
                           \* first return against that sale follows it directly
                           !.pre = IF /\ r.result = "created"
                                      /\ last.op = "create_sale"
                                      /\ last.result = "created"
                                      /\ last.sale_id = pl.sale_id
                                   THEN last.pre ELSE <<>>]
     /\ UNCHANGED <<today, last_batch, convars>>

DeleteSale(sale_id) ==
  LET r == delete_sale(DB, sale_id)
  IN /\ Tick
     /\ WithinBounds(r.db)
     /\ SetDB(r.db)
     /\ last' = Kept(Last("delete_sale", r.result, sale_id, 0, None, None))
     /\ UNCHANGED <<today, last_batch, convars>>

AdvanceDay ==
  /\ Tick
  /\ today < MaxDay
  /\ today' = today + 1
  /\ last' = Kept(Last("advance_day", "none", None, 0, None, None))
  /\ UNCHANGED <<dbvars, last_batch, convars>>

Next ==
  \/ \E p \in SalePayloads, day2 \in Days : CreateSale(p, day2)
  \/ \E pl \in MovementPayloads : RecordMovement(ExistingProduct, pl, FALSE)
  \/ ListProducts
  \/ \E pl \in ReturnPayloads : CreateReturn(pl)
  \/ \E sale_id \in 1..MaxSales : DeleteSale(sale_id)
  \/ AdvanceDay

Spec == Init /\ [][Next]_vars

(* the same requests with no sale request running over midnight *)
NextSameDay ==
  \/ \E p \in SalePayloads : CreateSale(p, today)
  \/ \E pl \in MovementPayloads : RecordMovement(ExistingProduct, pl, FALSE)
  \/ ListProducts
  \/ \E pl \in ReturnPayloads : CreateReturn(pl)
  \/ \E sale_id \in 1..MaxSales : DeleteSale(sale_id)
  \/ AdvanceDay

SpecSameDay == Init /\ [][NextSameDay]_vars

(* ================= credit sales, returns and reversals ================ *)
(* A stocked shop: one dated batch and one batch without expiry date were
   taken in on day 1; then sales with every payment form, returns with every
   refund form and sale deletions. *)
Pay(method, name, total, paid) ==
  [payment_method |-> method, customer_name |-> name, total_price |-> total,
   amount_paid |-> paid]

CreditPayments ==
  {CashPayment,
   Pay("credit", "Ama", 2, None), Pay("credit", "Ama", 2, 1),
   Pay("credit", "Kofi", 2, None), Pay("credit", NoName, 2, None),
   Pay("partial", "Ama", 2, None),
   Pay("partial", "Ama", 2, 1), Pay("partial", "Ama", 2, 2), Pay("partial", "Ama", 0, 1),
   Pay("partial", "Ama", 0, 0), Pay("partial", NoName, 2, 1)}

CreditSalePayloads ==
  {SalePayload(ExistingProduct, MaxQty, None, pay) : pay \in CreditPayments}

CreditReturnPayloads ==
  [sale_id : 1..MaxSales, quantity_returned : {1}, refund_amount : {1, 3},
   refund_method : {"cash", "credit_to_account"}, restock : {TRUE}]

StockedLedgers ==
  LET dated(e) == [change |-> MaxQty - 1, reason |-> "New Stock", batch_number |-> None,
                   expiry_date |-> e, unit_cost_price |-> 5]
      plain == [change |-> MaxQty + 1, reason |-> "Restock", batch_number |-> None,
                expiry_date |-> None, unit_cost_price |-> None]
      one(e) == record_movement(EmptyDB, ExistingProduct, dated(e), 1, 1).db
  IN {record_movement(one(e), ExistingProduct, plain, 1, 2).db.movements : e \in Days}

InitCredit ==
  /\ movements \in StockedLedgers
  /\ sales = <<>>
  /\ sale_returns = <<>>
  /\ creditors = <<>>
  /\ credit_transactions = <<>>
  /\ next_sale_id = 1
  /\ today = 1
  /\ last_batch = 2
  /\ ops = 0
  /\ last = Last("init", "none", None, 0, None, None)
  /\ pc = <<>>
  /\ loc = <<>>
  /\ pending = <<>>
  /\ unique_index = TRUE

NextCredit ==
  \/ \E p \in CreditSalePayloads : CreateSale(p, today)
  \/ \E pl \in CreditReturnPayloads : CreateReturn(pl)
  \/ \E sale_id \in 1..MaxSales : DeleteSale(sale_id)
  \/ AdvanceDay

SpecCredit == InitCredit /\ [][NextCredit]_vars

(* ================== manual creditor transactions ====================== *)
(* routers/creditors.py 223-258: POST /creditors/transactions records a debt
   or a payment against an existing creditor and moves the balance by the
   amount; the amount is not validated and the balance is not floored *)
add_transaction(db, t) ==
  IF t.creditor_id \notin DOMAIN db.creditors
  THEN [db |-> db, result |-> "not_found"]
  ELSE [db |->
          [db EXCEPT
             !.credit_transactions =
                Append(@, [creditor_id |-> t.creditor_id, sale_id |-> t.sale_id,
                           amount |-> t.amount,
                           transaction_type |-> t.transaction_type]),
             !.creditors =
                [@ EXCEPT ![t.creditor_id].total_debt =
                   IF t.transaction_type = "debt" THEN @ + t.amount ELSE @ - t.amount]],
        result |-> "recorded"]

TransactionPayloads ==
  [creditor_id : {1}, sale_id : {None}, amount : {1, 3},
   transaction_type : {"debt", "payment"}]

AddTransaction(t) ==
  LET r == add_transaction(DB, t)
  IN /\ Tick
     /\ SetDB(r.db)
     /\ last' = Kept(Last("add_transaction", r.result, None, t.amount, None, None))
     /\ UNCHANGED <<today, last_batch, convars>>

LedgerSalePayloads ==
  {SalePayload(ExistingProduct, MaxQty, None, pay) :
     pay \in {Pay("credit", "Ama", 2, None), Pay("credit", "Ama", 2, 1),
              Pay("partial", "Ama", 2, 1), Pay("credit", "Kofi", 2, None)}}

NextLedger ==
  \/ \E p \in LedgerSalePayloads : CreateSale(p, today)
  \/ \E pl \in CreditReturnPayloads : CreateReturn(pl)
  \/ \E sale_id \in 1..MaxSales : DeleteSale(sale_id)
  \/ \E t \in TransactionPayloads : AddTransaction(t)

SpecLedger == InitCredit /\ [][NextLedger]_vars

(* ======================= concurrent sale requests ===================== *)
(* Two POST /sales requests, each in its own session and transaction
   (database.py 56-65: one SessionLocal per request, no isolation level set,
   no row lock taken).  Every statement reads what is committed at that
   moment plus the session's own flushed rows; rows of other sessions become
   visible when they commit.  A request runs in three steps: ConcRead
   (sales.py 33-79), ConcWrite (81-306), ConcCommit (308). *)
Procs == {1, 2}

NoPending == [movements |-> <<>>, sales |-> <<>>, creditors |-> <<>>, credit_transactions |-> <<>>]

ConcPayloads ==
  {SalePayload(ExistingProduct, q, c, CashPayment) : q \in Qtys, c \in {None, 1}}

StockInPayloads ==
  {[change |-> q, reason |-> "New Stock", batch_number |-> None, expiry_date |-> e,
    unit_cost_price |-> 5] : q \in Qtys, e \in Days}

(* ledgers left by one or two stock-ins *)
ConcLedgers ==
  LET one(pl) == record_movement(EmptyDB, ExistingProduct, pl, 1, 1).db
      two(pl1, pl2) == record_movement(one(pl1), ExistingProduct, pl2, 1, 2).db
  IN {one(pl).movements : pl \in StockInPayloads}
     \cup {two(pl1, pl2).movements : pl1 \in StockInPayloads, pl2 \in StockInPayloads}

InitConc ==
  /\ movements \in ConcLedgers
  /\ sales = <<>>
  /\ sale_returns = <<>>
  /\ creditors = <<>>
  /\ credit_transactions = <<>>
  /\ next_sale_id = 1
  /\ today = 1
  /\ last_batch = 2
  /\ last = Last("init", "none", None, 0, None, None)
  /\ ops = 0
  /\ pc = [i \in Procs |-> "start"]
  /\ loc \in [Procs -> [p : ConcPayloads, result : {"none"}, sale_id : {None}, passed : {FALSE}]]
  /\ pending = [i \in Procs |-> NoPending]
  /\ unique_index \in BOOLEAN

(* what session i sees: committed rows plus its own flushed rows *)
View(i) == [DB EXCEPT !.movements = @ \o pending[i].movements,
                      !.sales = @ \o pending[i].sales]

Finish(i, result, sale_id) ==
  /\ pc' = [pc EXCEPT ![i] = "done"]
  /\ loc' = [loc EXCEPT ![i].result = result, ![i].sale_id = sale_id]
  /\ pending' = [pending EXCEPT ![i] = NoPending]

(* write-off and flush, idempotency check, product and stock check *)
ConcRead(i) ==
  /\ pc[i] = "start"
  /\ LET p == loc[i].p
         existing == ExistingSales(sales, p.client_sale_id)
     IN IF p.client_sale_id # None /\ existing # <<>>
        THEN Finish(i, "replay", existing[1].id)
        ELSE IF p.product_id \notin Products
        THEN Finish(i, "not_found", None)
        ELSE IF p.quantity > SaleAvailableStock(movements, p.product_id, today)
        THEN Finish(i, "insufficient_stock", None)
        ELSE /\ pc' = [pc EXCEPT ![i] = "checked"]
             /\ pending' = [pending EXCEPT ![i].movements =
                              WriteoffMovements(movements, p.product_id, today)]
             /\ loc' = [loc EXCEPT ![i].passed = TRUE]
  /\ UNCHANGED <<dbvars, today, last_batch, last, ops, unique_index>>

(* the INSERT of the Sale row (flush of sales.py 99) under the unique index
   idx_sales_branch_client_sale_id_unique of main.py 66-76 *)
IndexConflict(i) ==
  unique_index /\ loc[i].p.client_sale_id # None
    /\ ExistingSales(sales, loc[i].p.client_sale_id) # <<>>

IndexWait(i) ==
  unique_index /\ loc[i].p.client_sale_id # None
    /\ \E j \in Procs \ {i} : ExistingSales(pending[j].sales, loc[i].p.client_sale_id) # <<>>

(* insert the sale, read the batch balances, add the movements and the
   credit rows to the session; an IntegrityError of the INSERT is not caught
   and ends the request *)
ConcWrite(i) ==
  /\ pc[i] = "checked"
  /\ ~IndexWait(i)
  /\ IF IndexConflict(i)
     THEN /\ Finish(i, "error", None)
          /\ UNCHANGED next_sale_id
     ELSE LET p == loc[i].p
              ms1 == View(i).movements
              sale_id == next_sale_id
          IN \E order \in SortedOrders(AvailableBatches(ms1, p.product_id, today)) :
               /\ pending' = [pending EXCEPT ![i] =
                    [movements |-> pending[i].movements \o SaleMovements(ms1, p, sale_id, order),
                     sales |-> <<SaleRow(p, sale_id)>>,
                     creditors |-> SaleCreditors(creditors, p),
                     credit_transactions |->
                       SaleCreditTransactions(creditors, <<>>, p, sale_id)]]
               /\ pc' = [pc EXCEPT ![i] = IF PartialRejected(p) THEN "done" ELSE "written"]
               /\ loc' = [loc EXCEPT ![i].result =
                            IF PartialRejected(p) THEN "partial_rejected" ELSE @]
               /\ next_sale_id' = sale_id + 1
  /\ UNCHANGED <<movements, sales, sale_returns, creditors, credit_transactions,
                 today, last_batch, last, ops, unique_index>>

(* rows of the creditors table this session inserted or updated *)
CommitCreditors(cs, mine) ==
  [k \in 1..(IF Len(mine) > Len(cs) THEN Len(mine) ELSE Len(cs)) |->
     IF k \in DOMAIN mine /\ (k \notin DOMAIN cs \/ mine[k] # cs[k]) THEN mine[k] ELSE cs[k]]

ConcCommit(i) ==
  /\ pc[i] = "written"
  /\ movements' = movements \o pending[i].movements
  /\ sales' = sales \o pending[i].sales
  /\ creditors' = IF pending[i].credit_transactions = <<>> THEN creditors
                  ELSE CommitCreditors(creditors, pending[i].creditors)
  /\ credit_transactions' = credit_transactions \o pending[i].credit_transactions
  /\ Finish(i, "created", pending[i].sales[1].id)
  /\ UNCHANGED <<sale_returns, next_sale_id, today, last_batch, last, ops, unique_index>>

NextConc == \E i \in Procs : ConcRead(i) \/ ConcWrite(i) \/ ConcCommit(i)

SpecConc == InitConc /\ [][NextConc]_vars

(* ====================== concurrent return requests ==================== *)
(* Two POST /returns requests against a store that holds one sale of MaxQty
   units, each in its own session as above.  A request runs in three steps:
   RetRead (returns.py 43-71: the sale, the sum already returned, the
   check), RetInsert (72-124: the rows are added to the session; the credit
   branch reads the debt entry and the creditor), RetCommit (126). *)
ConcReturnPayloads ==
  [sale_id : 1..MaxSales, quantity_returned : Qtys, refund_amount : {1},
   refund_method : {"cash", "credit_to_account"}, restock : BOOLEAN]

(* stores left by one stocked ledger and one sale of MaxQty units *)
SoldStores ==
  LET store(ms) == [EmptyDB EXCEPT !.movements = ms]
      orders(ms) == SortedOrders(AvailableBatches(ms, ExistingProduct, 1))
  IN UNION {{create_sale(store(ms), SalePayload(ExistingProduct, MaxQty, None, pay),
                         1, 1, order).db :
               pay \in {CashPayment, Pay("credit", "Ama", 2, None)}, order \in orders(ms)} :
            ms \in StockedLedgers}

InitReturns ==
  /\ \E d \in SoldStores :
          /\ movements = d.movements
          /\ sales = d.sales
          /\ sale_returns = d.sale_returns
          /\ creditors = d.creditors
          /\ credit_transactions = d.credit_transactions
          /\ next_sale_id = d.next_sale_id
  /\ today = 1
  /\ last_batch = 2
  /\ last = Last("init", "none", None, 0, None, None)
  /\ ops = 0
  /\ pc = [i \in Procs |-> "start"]
  /\ loc \in [Procs -> [pl : ConcReturnPayloads, result : {"none"}, already : {0},
                        rows : {<<>>}, balance : {<<>>}]]
  /\ pending = [i \in Procs |-> NoPending]
  /\ unique_index = TRUE

RetFinish(i, result) ==
  /\ pc' = [pc EXCEPT ![i] = "done"]
  /\ loc' = [loc EXCEPT ![i].result = result, ![i].rows = <<>>, ![i].balance = <<>>]
  /\ pending' = [pending EXCEPT ![i] = NoPending]

(* the sale, the quantity already returned as committed at this moment, and
   the check against what is left to return *)
RetRead(i) ==
  /\ pc[i] = "start"
  /\ LET pl == loc[i].pl
         found == SaleById(sales, pl.sale_id)
         already_returned == AlreadyReturned(sale_returns, pl.sale_id)
     IN IF found = <<>> THEN RetFinish(i, "not_found")
        ELSE IF pl.quantity_returned > found[1].quantity - already_returned
        THEN RetFinish(i, "rejected")
        ELSE /\ pc' = [pc EXCEPT ![i] = "checked"]
             /\ loc' = [loc EXCEPT ![i].already = already_returned]
             /\ UNCHANGED pending
  /\ UNCHANGED <<dbvars, today, last_batch, last, ops, unique_index>>

(* the SaleReturn row, the restock movement and the credit rows are added to
   the session; the creditor's new balance is computed from the balance read
   now *)
RetInsert(i) ==
  /\ pc[i] = "checked"
  /\ LET pl == loc[i].pl
         sale == SaleById(sales, pl.sale_id)[1]
         debts == DebtTransactions(credit_transactions, pl.sale_id)
         to_account == /\ sale.payment_method = "credit"
                       /\ pl.refund_method = "credit_to_account"
                       /\ debts # <<>>
         cid == debts[1].creditor_id
     IN /\ loc' = [loc EXCEPT
                     ![i].rows = <<[sale_id |-> pl.sale_id,
                                    quantity_returned |-> pl.quantity_returned,
                                    refund_amount |-> pl.refund_amount,
                                    refund_method |-> pl.refund_method,
                                    restock |-> pl.restock]>>,
                     ![i].balance =
                        IF to_account
                             /\ Max0(creditors[cid].total_debt - pl.refund_amount)
                                  # creditors[cid].total_debt
                        THEN <<[creditor_id |-> cid,
                                total_debt |->
                                  Max0(creditors[cid].total_debt - pl.refund_amount)]>>
                        ELSE <<>>]
        /\ pending' = [pending EXCEPT
                         ![i].movements =
                            IF pl.restock THEN <<ReturnMovement(sale, pl)>> ELSE <<>>,
                         ![i].credit_transactions =
                            IF to_account
                            THEN <<[creditor_id |-> cid, sale_id |-> sale.id,
                                    amount |-> pl.refund_amount,
                                    transaction_type |-> "payment"]>>
                            ELSE <<>>]
  /\ pc' = [pc EXCEPT ![i] = "written"]
  /\ UNCHANGED <<dbvars, today, last_batch, last, ops, unique_index>>

RetCommit(i) ==
  /\ pc[i] = "written"
  /\ sale_returns' = sale_returns \o loc[i].rows
  /\ movements' = movements \o pending[i].movements
  /\ credit_transactions' = credit_transactions \o pending[i].credit_transactions
  /\ creditors' = IF loc[i].balance = <<>> THEN creditors
                  ELSE [creditors EXCEPT ![loc[i].balance[1].creditor_id].total_debt =
                          loc[i].balance[1].total_debt]
  /\ RetFinish(i, "created")
  /\ UNCHANGED <<sales, next_sale_id, today, last_batch, last, ops, unique_index>>

NextReturns == \E i \in Procs : RetRead(i) \/ RetInsert(i) \/ RetCommit(i)

SpecReturns == InitReturns /\ [][NextReturns]_vars

(* ===================== concurrent write-off requests ================== *)
(* Two GET /products requests, each in its own session as above, while the
   date may pass midnight.  A request runs in three steps: WoRead
   (products.py 118-124: writeoff_expired_batches reads the date and the
   expired balances as committed at this moment and adds the Expired
   movements to the session), WoCommit (125), WoReport (127-157). *)
InitWriteoff ==
  /\ movements \in ConcLedgers
  /\ sales = <<>>
  /\ sale_returns = <<>>
  /\ creditors = <<>>
  /\ credit_transactions = <<>>
  /\ next_sale_id = 1
  /\ today = 1
  /\ last_batch = 2
  /\ last = Last("init", "none", None, 0, None, None)
  /\ ops = 0
  /\ pc = [i \in Procs |-> "start"]
  /\ loc = [i \in Procs |-> [result |-> "none", stock |-> 0]]
  /\ pending = [i \in Procs |-> NoPending]
  /\ unique_index = TRUE

WoRead(i) ==
  /\ pc[i] = "start"
  /\ pending' = [pending EXCEPT ![i].movements =
                   WriteoffMovements(movements, ExistingProduct, today)
                     \o WriteoffMovements(movements, OtherProduct, today)]
  /\ pc' = [pc EXCEPT ![i] = "written"]
  /\ UNCHANGED <<dbvars, today, last_batch, last, ops, loc, unique_index>>

WoCommit(i) ==
  /\ pc[i] = "written"
  /\ movements' = movements \o pending[i].movements
  /\ pending' = [pending EXCEPT ![i] = NoPending]
  /\ pc' = [pc EXCEPT ![i] = "committed"]
  /\ UNCHANGED <<sales, sale_returns, creditors, credit_transactions, next_sale_id,
                 today, last_batch, last, ops, loc, unique_index>>

WoReport(i) ==
  /\ pc[i] = "committed"
  /\ loc' = [loc EXCEPT ![i] = [result |-> "ok",
                                stock |-> Max0(TotalStock(movements, ExistingProduct))]]
  /\ pc' = [pc EXCEPT ![i] = "done"]
  /\ UNCHANGED <<dbvars, today, last_batch, last, ops, pending, unique_index>>

NextWriteoff ==
  \/ \E i \in Procs : WoRead(i) \/ WoCommit(i) \/ WoReport(i)
  \/ AdvanceDay

SpecWriteoff == InitWriteoff /\ [][NextWriteoff]_vars

(* ========================== bulk checkout ============================= *)
(* A shop with two products: product 1 holds one dated batch, product 3 one
   batch without expiry date.  Sales arrive one by one or as bulk
   submissions of up to MaxItems items. *)
BulkItems ==
  {SalePayload(ExistingProduct, 1, 1, CashPayment),
   SalePayload(ExistingProduct, 1, None, CashPayment),
   SalePayload(OtherProduct, 1, None, CashPayment),
   SalePayload(OtherProduct, 1, None, CreditPayment),
   SalePayload(OtherProduct, MaxQty + 2, None, CashPayment),
   SalePayload(2, 1, None, CashPayment),
   SalePayload(ExistingProduct, 1, None, Pay("partial", "Ama", 2, 2))}

BulkSubmissions == UNION {[1..n -> BulkItems] : n \in 1..MaxItems}

TwoProductLedgers ==
  LET dated(e) == [change |-> MaxQty, reason |-> "New Stock", batch_number |-> None,
                   expiry_date |-> e, unit_cost_price |-> 5]
      plain == [change |-> MaxQty + 1, reason |-> "Restock", batch_number |-> None,
                expiry_date |-> None, unit_cost_price |-> None]
      one(e) == record_movement(EmptyDB, ExistingProduct, dated(e), 1, 1).db
  IN {record_movement(one(e), OtherProduct, plain, 1, 3).db.movements : e \in Days}

InitBulk ==
  /\ movements \in TwoProductLedgers
  /\ sales = <<>>
  /\ sale_returns = <<>>
  /\ creditors = <<>>
  /\ credit_transactions = <<>>
  /\ next_sale_id = 1
  /\ today = 1
  /\ last_batch = 3
  /\ ops = 0
  /\ last = Last("init", "none", None, 0, None, None)
  /\ pc = <<>>
  /\ loc = <<>>
  /\ pending = <<>>
  /\ unique_index = TRUE

(* POST /sales/bulk: one request, one session.  The response is the list of
   sales, or the error of the item that raised. *)
CreateSalesBulk(payloads) ==
  /\ Tick
  /\ \E out \in create_sales_bulk(DB, DB, payloads, today, <<>>) :
       /\ WithinBounds(out.db)
       /\ SetDB(out.db)
       /\ last' = [Kept(Last("create_sales_bulk", out.results[Len(out.results)],
                             None, 0, None, None))
                      EXCEPT !.items = payloads, !.results = out.results]
  /\ UNCHANGED <<today, last_batch, convars>>

NextBulk ==
  \/ \E p \in BulkItems : CreateSale(p, today)
  \/ \E payloads \in BulkSubmissions : CreateSalesBulk(payloads)
  \/ AdvanceDay

SpecBulk == InitBulk /\ [][NextBulk]_vars

(* ===================== a store restored from an export ================ *)
(* POST /data/import (data.py 571-706): the movements come back without
   sale_id, unit cost and unit selling price, the sales get new ids in list
   order and lose their client_sale_id, the credit transactions follow their
   sale through the id map, sale returns are not part of an export. *)
ImportedId(ss, sale_id) ==
  IF \E i \in DOMAIN ss : ss[i].id = sale_id
  THEN CHOOSE i \in DOMAIN ss : ss[i].id = sale_id
  ELSE None

import_data(export) ==
  [movements |-> [i \in DOMAIN export.movements |->
                    [export.movements[i] EXCEPT !.sale_id = None,
                                                !.unit_cost_price = None,
                                                !.unit_selling_price = None]],
   sales |-> [i \in DOMAIN export.sales |->
                [export.sales[i] EXCEPT !.id = i, !.client_sale_id = None]],
   sale_returns |-> <<>>,
   creditors |-> export.creditors,
   credit_transactions |-> [i \in DOMAIN export.credit_transactions |->
                              [export.credit_transactions[i] EXCEPT
                                 !.sale_id = ImportedId(export.sales, @)]],
   next_sale_id |-> Len(export.sales) + 1]

(* the stores that were exported: one dated batch taken in, one sale made *)
ExportedStores ==
  LET dated(e) == [change |-> MaxQty + 1, reason |-> "New Stock", batch_number |-> None,
                   expiry_date |-> e, unit_cost_price |-> 5]
      one(e) == record_movement(EmptyDB, ExistingProduct, dated(e), 1, 1).db
      orders(e) == SortedOrders(AvailableBatches(one(e).movements, ExistingProduct, 1))
  IN UNION {{create_sale(one(e), SalePayload(ExistingProduct, q, None, pay), 1, 1, order).db :
               q \in Qtys, pay \in Payments, order \in orders(e)} : e \in Days}

InitLegacy ==
  /\ \E export \in ExportedStores :
       LET d == import_data(export)
       IN /\ movements = d.movements
          /\ sales = d.sales
          /\ sale_returns = d.sale_returns
          /\ creditors = d.creditors
          /\ credit_transactions = d.credit_transactions
          /\ next_sale_id = d.next_sale_id
  /\ today = 1
  /\ last_batch = 1
  /\ ops = 0
  /\ last = Last("init", "none", None, 0, None, None)
  /\ pc = <<>>
  /\ loc = <<>>
  /\ pending = <<>>
  /\ unique_index = TRUE

LegacySalePayloads == {SalePayload(ExistingProduct, 1, None, pay) : pay \in Payments}

NextLegacy ==
  \/ \E p \in LegacySalePayloads : CreateSale(p, today)
  \/ \E pl \in ReturnPayloads : CreateReturn(pl)
  \/ \E sale_id \in 1..MaxSales : DeleteSale(sale_id)
  \/ AdvanceDay

SpecLegacy == InitLegacy /\ [][NextLegacy]_vars

(* ========================= reading the stock ========================== *)
(* PATCH /products/{id}: no write-off; the response carries the sum of the
   product's movement deltas as it is (products.py 360-365).  The payload
   changes product fields that no other request of the model reads. *)
UpdateProduct ==
  /\ Tick
  /\ last' = Kept(Last("update_product", "ok", None, TotalStock(movements, ExistingProduct),
                       None, ExistingProduct))
  /\ UNCHANGED <<dbvars, today, last_batch, convars>>

(* A shop that took in one dated batch on day 1 and then may have recorded
   damaged units without naming the batch. *)
ReadLedgers ==
  LET dated(q, e) == [change |-> q, reason |-> "New Stock", batch_number |-> None,
                      expiry_date |-> e, unit_cost_price |-> 5]
      damaged(d) == [change |-> 0 - d, reason |-> " Damaged ", batch_number |-> None,
                     expiry_date |-> None, unit_cost_price |-> None]
      one(q, e) == record_movement(EmptyDB, ExistingProduct, dated(q, e), 1, 1).db
  IN {one(q, e).movements : q \in Qtys, e \in Days}
     \cup {record_movement(one(q, e), ExistingProduct, damaged(d), 1, 1).db.movements :
             q \in Qtys, e \in Days, d \in Qtys}

InitRead ==
  /\ movements \in ReadLedgers
  /\ sales = <<>>
  /\ sale_returns = <<>>
  /\ creditors = <<>>
  /\ credit_transactions = <<>>
  /\ next_sale_id = 1
  /\ today = 1
  /\ last_batch = 1
  /\ ops = 0
  /\ last = Last("init", "none", None, 0, None, None)
  /\ pc = <<>>
  /\ loc = <<>>
  /\ pending = <<>>
  /\ unique_index = TRUE

(* the requests that report the stock, day after day *)
NextRead ==
  \/ ListProducts
  \/ UpdateProduct
  \/ AdvanceDay

SpecRead == InitRead /\ [][NextRead]_vars

(* =================== storage failures in the write-off ================ *)
(* GET /products while the storage raises on the cost lookup of the batches
   in failing.  The exception is caught in writeoff_expired_batches; what
   follows depends on the database: where a failed statement leaves the
   transaction usable the request goes on and commits (usable), where it
   aborts the transaction the flush of expiry.py 159-160 raises and the
   request fails with nothing committed. *)
ListProductsFailing(failing, usable) ==
  LET expired == {b.batch_number : b \in ExpiredRows(movements, ExistingProduct, today)}
      ms1 == movements \o WriteoffMovementsFailing(movements, ExistingProduct, today, failing)
  IN /\ Tick
     /\ failing # {}
     /\ failing \subseteq expired
     /\ movements' = IF usable THEN ms1 ELSE movements
     /\ last' = [Kept(Last("list_products", IF usable THEN "ok" ELSE "error", None,
                           IF usable THEN Max0(TotalStock(ms1, ExistingProduct)) ELSE 0,
                           None, None))
                    EXCEPT !.failed = failing]
     /\ UNCHANGED <<sales, sale_returns, creditors, credit_transactions, next_sale_id,
                    today, last_batch, convars>>

NextFault ==
  \/ ListProducts
  \/ \E failing \in SUBSET (1..last_batch), usable \in BOOLEAN :
       ListProductsFailing(failing, usable)
  \/ UpdateProduct
  \/ AdvanceDay

SpecFault == InitRead /\ [][NextFault]_vars

(* ===================== manual movements, every reason ================= *)
(* The stocked shop of InitCredit; clients post movements with every
   spelling of NormTable and a negative, zero or positive delta.  A stock-in
   comes with an expiry date. *)
ReasonDeltas == {0 - 1, 0, 1}

ReasonPayloads ==
  {[change |-> d, reason |-> r, batch_number |-> None,
    expiry_date |-> IF d > 0 THEN MaxDay ELSE None,
    unit_cost_price |-> None] : r \in DOMAIN NormTable, d \in ReasonDeltas}

NextReason ==
  /\ ops < MaxReasonOps
  /\ \E pl \in ReasonPayloads : RecordMovement(ExistingProduct, pl, FALSE)

SpecReason == InitCredit /\ [][NextReason]_vars

(* =========================== properties =============================== *)
P == ExistingProduct

SaleStep == ops' = ops + 1 /\ last'.op = "create_sale"

SaleCreated == SaleStep /\ last'.result = "created"

(* the ledger the availability check of a sale request looks at *)
PostWriteoff == writeoff_expired_batches(movements, P, today)

Linked(ms, sale_id) == SelectSeq(ms, LAMBDA m : m.sale_id = sale_id)

HasClientSaleId(ss, csid) == \E i \in DOMAIN ss : ss[i].client_sale_id = csid

(* C1 as stated: every create_sale request for more than the available
   stock (sum of deltas after the write-off) is rejected with the
   insufficient-stock error and commits nothing. *)
C1_Original ==
  [][(SaleStep /\ last'.pid = P /\ last'.qty > TotalStock(PostWriteoff, P))
       => (last'.result = "insufficient_stock" /\ UNCHANGED dbvars)]_vars

(* C1 amended: every create_sale request that is not a replay of a
   client_sale_id already recorded, and that asks for more than the available
   stock (sum of deltas after the write-off), is rejected with the
   insufficient-stock error, and no sale, movement, creditor or credit
   transaction is committed. *)
C1_InsufficientStockRejected ==
  [][(/\ SaleStep
      /\ last'.pid = P
      /\ last'.csid = None \/ ~HasClientSaleId(sales, last'.csid)
      /\ last'.qty > TotalStock(PostWriteoff, P))
       => (last'.result = "insufficient_stock" /\ UNCHANGED dbvars)]_vars

C1_Witness ==
  /\ last.op = "create_sale"
  /\ last.result = "insufficient_stock"
  /\ TotalStock(movements, P) > 0
  /\ last.qty > TotalStock(movements, P)

(* C2: after any sequence of committed operations the sum of all movement
   deltas of the product is >= 0. *)
C2_TotalStockNonNegative == TotalStock(movements, P) >= 0

(* C4: a create_sale carrying a client_sale_id that a recorded sale already
   has returns that sale's id - the id the first call returned - and leaves
   the sale-linked movements and the credit transactions exactly as the first
   call left them; a client_sale_id is recorded at most once. *)
C4_ReplayReturnsSameSale ==
  [][/\ (SaleCreated /\ last'.csid # None)
          => \E i \in DOMAIN sales' : /\ sales'[i].id = last'.sale_id
                                      /\ sales'[i].client_sale_id = last'.csid
     /\ (SaleStep /\ last'.csid # None /\ HasClientSaleId(sales, last'.csid))
          => /\ last'.result = "replay"
             /\ \E i \in DOMAIN sales : /\ sales[i].client_sale_id = last'.csid
                                        /\ sales[i].id = last'.sale_id
             /\ Linked(movements', last'.sale_id) = Linked(movements, last'.sale_id)
             /\ SelectSeq(movements', LAMBDA m : m.sale_id # None)
                  = SelectSeq(movements, LAMBDA m : m.sale_id # None)
             /\ credit_transactions' = credit_transactions
             /\ sales' = sales
     /\ \A i, j \in DOMAIN sales' :
          (sales'[i].client_sale_id # None
             /\ sales'[i].client_sale_id = sales'[j].client_sale_id) => i = j]_vars

C4_Witness ==
  /\ last.op = "create_sale"
  /\ last.result = "replay"
  /\ Linked(movements, last.sale_id) # <<>>

(* what a sale took from the balance record b *)
Drawn(ms, sale_id, b) ==
  0 - SumChange(SelectSeq(ms, LAMBDA m : /\ m.sale_id = sale_id
                                         /\ m.reason = "Sale"
                                         /\ m.batch_number = b.batch_number
                                         /\ m.expiry_date = b.expiry_date
                                         /\ m.location = b.location))

Earlier(a, b) ==
  a.expiry_date # None /\ (b.expiry_date = None \/ a.expiry_date < b.expiry_date)

(* the balance records with stock that is not expired on the day of the sale *)
Sellable(ms, day) ==
  {b \in get_batch_balances(ms, P, TRUE) :
     b.balance > 0 /\ (b.expiry_date = None \/ b.expiry_date >= day)}

(* C6: a created sale takes at most its balance from every batch record, and
   no record that was left with stock (nothing or only part taken) expires
   earlier than a record the sale drew from; records without expiry count as
   expiring last. *)
C6_FifoByExpiry ==
  [][SaleCreated =>
       LET pre == Sellable(PostWriteoff, today')
       IN /\ \A b \in pre : Drawn(movements', last'.sale_id, b) <= b.balance
          /\ \A a, b \in pre :
               (Drawn(movements', last'.sale_id, b) > 0
                  /\ Drawn(movements', last'.sale_id, a) < a.balance) => ~Earlier(a, b)]_vars

(* two dated batches of MaxQty each, the earlier emptied and the later one
   left with MaxQty - 1 by a sale of MaxQty + 1 *)
C6_Witness ==
  /\ last.op = "create_sale" /\ last.result = "created" /\ last.qty = MaxQty + 1
  /\ \E a, b \in get_batch_balances(movements, P, TRUE) :
       /\ a.expiry_date # None /\ b.expiry_date # None /\ a.expiry_date < b.expiry_date
       /\ a.balance = 0 /\ b.balance = MaxQty - 1
       /\ Len(Linked(movements, last.sale_id)) = 2

(* C7: no Sale movement is created against a batch that expired before the
   day of the sale, and every batch record with a positive balance is
   eligible for exactly one of sale and write-off. *)
C7_ExpiredNeverSold ==
  [][/\ SaleCreated =>
          \A i \in DOMAIN movements' :
            (movements'[i].sale_id = last'.sale_id /\ movements'[i].reason = "Sale"
               /\ movements'[i].expiry_date # None)
              => movements'[i].expiry_date >= today'
     /\ \A b \in get_batch_balances(movements', P, TRUE) :
          b.balance > 0 => (SaleEligible(b, today') # WriteoffEligible(b, today'))]_vars

(* a batch sold on its expiry day *)
C7_Witness ==
  /\ last.op = "create_sale" /\ last.result = "created"
  /\ \E i \in DOMAIN movements :
       /\ movements[i].sale_id = last.sale_id
       /\ movements[i].reason = "Sale"
       /\ movements[i].expiry_date = today

(* C8: the movements of a created sale are all strictly negative, sum to the
   requested quantity, and are all the request adds to the written-off
   ledger, so the total drops by exactly the requested quantity. *)
C8_SaleMovementsSumToQuantity ==
  [][SaleCreated =>
       LET mine == Linked(movements', last'.sale_id)
       IN /\ SumChange(mine) = 0 - last'.qty
          /\ \A i \in DOMAIN mine : mine[i].change < 0
          /\ movements' = PostWriteoff \o mine
          /\ TotalStock(movements', P) = TotalStock(PostWriteoff, P) - last'.qty]_vars

(* a sale split over a batch movement and the un-batched remainder *)
C8_Witness ==
  /\ last.op = "create_sale" /\ last.result = "created"
  /\ \E i, j \in DOMAIN movements :
       /\ movements[i].sale_id = last.sale_id /\ movements[i].batch_number # None
       /\ movements[j].sale_id = last.sale_id /\ movements[j].batch_number = None
       /\ movements[j].reason = "Sale"

(* signed sum of all movements carrying batch_number bn *)
BatchSum(ms, bn) == SumChange(SelectSeq(ms, LAMBDA m : m.product_id = P /\ m.batch_number = bn))

(* C9: no sale takes from a batch more than it holds: the signed sum of all
   movements carrying a batch_number is not negative after a sale drew from
   that batch. *)
C9_BatchNeverOverdrawn ==
  [][SaleCreated =>
       \A i \in DOMAIN movements' :
         (movements'[i].sale_id = last'.sale_id /\ movements'[i].batch_number # None)
           => BatchSum(movements', movements'[i].batch_number) >= 0]_vars

(* C10: a second write-off run on the same day, nothing in between, creates
   no movement (returns 0). *)
C10_WriteoffIdempotent ==
  LET once == writeoff_expired_batches(movements, P, today)
  IN /\ Len(WriteoffMovements(once, P, today)) = 0
     /\ writeoff_expired_batches(once, P, today) = once

(* an expired batch was written off by one Expired movement of -MaxQty *)
C10_Witness ==
  /\ last.op = "list_products"
  /\ \E i \in DOMAIN movements :
       /\ movements[i].reason = "Expired" /\ movements[i].change = 0 - MaxQty
       /\ movements[i].expiry_date < today
       /\ Cardinality({j \in DOMAIN movements : movements[j].reason = "Expired"}) = 1

(* C3: with two concurrent create_sale requests the committed sum of all
   movement deltas of the product is never negative. *)
C3_ConcurrentStockNonNegative == TotalStock(movements, P) >= 0

BothDone == \A i \in Procs : pc[i] = "done"

(* C5: when two concurrent create_sale requests with the same payload and
   client_sale_id both pass the existence check before either commits, at
   most one Sale row with that id is committed, the stock is deducted for one
   of them only, and both callers get that same sale, neither a failure. *)
C5_ConcurrentSameClientSaleId ==
  (BothDone /\ loc[1].p.client_sale_id # None
            /\ loc[1].p = loc[2].p
            /\ \A i \in Procs : loc[i].passed)
    => /\ Cardinality({k \in DOMAIN sales :
                         sales[k].client_sale_id = loc[1].p.client_sale_id}) <= 1
       /\ Cardinality({m.sale_id : m \in {x \in Range(movements) : x.sale_id # None}}) <= 1
       /\ \A i \in Procs : loc[i].result \in {"created", "replay"}
       /\ loc[1].sale_id = loc[2].sale_id

(* ---------------- write-off postcondition and returns ------------------ *)
SameKey(a, b) ==
  /\ a.batch_number = b.batch_number
  /\ a.expiry_date = b.expiry_date
  /\ a.location = b.location

(* summed delta of the movements of P that share m's batch number, expiry
   date and location *)
KeySum(ms, m) == SumChange(SelectSeq(ms, LAMBDA x : x.product_id = P /\ SameKey(x, m)))

ExpiredBefore(m, day) ==
  m.batch_number # None /\ m.expiry_date # None /\ m.expiry_date < day

(* C11: after writeoff_expired_batches every group (batch number, expiry date,
   location) expired before today sums to at most zero; each group that was
   strictly positive got exactly one Expired movement of minus its balance;
   nothing is appended for a group that is not expired, has no expiry date,
   has no batch number or has a balance <= 0; the earlier rows are untouched. *)
C11_WriteoffPostcondition ==
  LET post == writeoff_expired_batches(movements, P, today)
      added == SubSeq(post, Len(movements) + 1, Len(post))
  IN /\ Len(post) >= Len(movements)
     /\ SubSeq(post, 1, Len(movements)) = movements
     /\ \A i \in DOMAIN post : ExpiredBefore(post[i], today) => KeySum(post, post[i]) <= 0
     /\ \A i \in DOMAIN movements :
          LET m == movements[i]
              mine == {j \in DOMAIN added : SameKey(added[j], m)}
          IN IF ExpiredBefore(m, today) /\ KeySum(movements, m) > 0
             THEN /\ Cardinality(mine) = 1
                  /\ \A j \in mine : /\ added[j].change = 0 - KeySum(movements, m)
                                     /\ added[j].reason = "Expired"
                                     /\ added[j].product_id = P
             ELSE mine = {}
     /\ \A j \in DOMAIN added :
          /\ ExpiredBefore(added[j], today)
          /\ \E i \in DOMAIN movements : SameKey(movements[i], added[j])

(* one batch written off, another with a later date left with its stock *)
C11_Witness ==
  /\ last.op = "list_products"
  /\ \E i, j \in DOMAIN movements :
       /\ movements[i].reason = "Expired" /\ movements[i].expiry_date < today
       /\ movements[j].batch_number # None /\ movements[j].expiry_date >= today
       /\ KeySum(movements, movements[j]) > 0
       /\ KeySum(movements, movements[i]) = 0

ExpiredKeys(ms, day) ==
  {[batch_number |-> m.batch_number, expiry_date |-> m.expiry_date, location |-> m.location] :
     m \in {x \in Range(ms) : x.product_id = P /\ ExpiredBefore(x, day)}}

RECURSIVE SumPositive(_, _)
SumPositive(ms, K) ==
  IF K = {} THEN 0
  ELSE LET k == CHOOSE x \in K : TRUE
       IN (IF KeySum(ms, k) > 0 THEN KeySum(ms, k) ELSE 0) + SumPositive(ms, K \ {k})

(* stock sitting in batches that expired before day *)
ExpiredStock(ms, day) == SumPositive(ms, ExpiredKeys(ms, day))

(* C12: when expired batches still hold stock that no earlier request wrote
   off, a create_sale (not a replay of a recorded client_sale_id) asking for
   more than the stock held outside those batches is rejected as insufficient
   and commits nothing; a created sale never exceeds that stock. *)
C12_ExpiredStockNotAvailable ==
  [][(/\ SaleStep
      /\ last'.pid = P
      /\ last'.csid = None \/ ~HasClientSaleId(sales, last'.csid)
      /\ ExpiredStock(movements, today) > 0)
       => LET outside == TotalStock(movements, P) - ExpiredStock(movements, today)
          IN /\ last'.qty > outside
                  => (last'.result = "insufficient_stock" /\ UNCHANGED dbvars)
             /\ last'.result = "created" => last'.qty <= outside]_vars

(* a request the raw total would cover is refused while the expired batch is
   still not written off *)
C12_Witness ==
  /\ last.op = "create_sale" /\ last.result = "insufficient_stock"
  /\ ExpiredStock(movements, today) > 0
  /\ last.qty <= TotalStock(movements, P)
  /\ last.qty > TotalStock(movements, P) - ExpiredStock(movements, today)

ReturnStep == ops' = ops + 1 /\ last'.op = "create_return"

ReturnedOf(rs, sale_id) ==
  SumReturned(SelectSeq(rs, LAMBDA r : r.sale_id = sale_id))

(* C17: the returns recorded for a sale never add up to more than the sale's
   quantity; a return of more than quantity - already returned is rejected
   and changes nothing, any other return is accepted and recorded. *)
C17_ReturnBound ==
  [][/\ \A i \in DOMAIN sales' :
          ReturnedOf(sale_returns', sales'[i].id) <= sales'[i].quantity
     /\ ReturnStep =>
          \A i \in DOMAIN sales :
            sales[i].id = last'.sale_id =>
              LET left == sales[i].quantity - ReturnedOf(sale_returns, sales[i].id)
              IN IF last'.qty > left
                 THEN last'.result = "rejected" /\ UNCHANGED dbvars
                 ELSE /\ last'.result = "created"
                      /\ ReturnedOf(sale_returns', sales[i].id)
                           = ReturnedOf(sale_returns, sales[i].id) + last'.qty]_vars

(* a return the sale's quantity would cover is refused because of an earlier
   return *)
C17_Witness ==
  /\ last.op = "create_return" /\ last.result = "rejected"
  /\ \E i \in DOMAIN sales :
       /\ sales[i].id = last.sale_id
       /\ last.qty <= sales[i].quantity
       /\ ReturnedOf(sale_returns, sales[i].id) > 0
       /\ ReturnedOf(sale_returns, sales[i].id) < sales[i].quantity

(* C18: an accepted return with restock appends exactly one movement of
   +quantity_returned, reason Customer Return, linked to the sale, which
   raises the total by that quantity; without restock the ledger is unchanged. *)
C18_ReturnRestock ==
  [][(ReturnStep /\ last'.result = "created") =>
       IF last'.ret.restock
       THEN /\ Len(movements') = Len(movements) + 1
            /\ SubSeq(movements', 1, Len(movements)) = movements
            /\ LET m == movements'[Len(movements')]
               IN /\ m.change = last'.qty
                  /\ m.reason = "Customer Return"
                  /\ m.sale_id = last'.sale_id
                  /\ m.product_id = P
            /\ TotalStock(movements', P) = TotalStock(movements, P) + last'.qty
       ELSE movements' = movements]_vars

C18_Witness ==
  /\ last.op = "create_return" /\ last.result = "created" /\ last.ret.restock
  /\ movements # <<>>
  /\ movements[Len(movements)].reason = "Customer Return"
  /\ movements[Len(movements)].sale_id = last.sale_id

(* ------------------------- creditor ledger ---------------------------- *)
OthersUnchanged(cs, cs2, name) ==
  \A i \in DOMAIN cs : cs[i].name # name => (i \in DOMAIN cs2 /\ cs2[i] = cs[i])

(* C13: a partial-payment create_sale with amount_paid >= total_price is
   rejected and commits nothing: no sale, movement, write-off, creditor
   change or credit transaction. *)
C13_PartialOverpaymentRejected ==
  [][(/\ SaleStep
      /\ last'.pay.payment_method = "partial"
      /\ last'.pay.amount_paid >= last'.pay.total_price)
       => (last'.result \notin {"created", "replay"} /\ UNCHANGED dbvars)]_vars

(* C14: a committed partial sale with a customer name and
   0 < amount_paid < total_price has exactly one credit transaction, a debt of
   total_price - amount_paid, and the customer's balance rises by that much. *)
C14_PartialDebtIsRemainder ==
  [][(/\ SaleCreated
      /\ last'.pay.payment_method = "partial"
      /\ last'.pay.customer_name # NoName
      /\ 0 < last'.pay.amount_paid
      /\ last'.pay.amount_paid < last'.pay.total_price)
       => LET mine == TxOf(credit_transactions', last'.sale_id)
              owed == last'.pay.total_price - last'.pay.amount_paid
              name == last'.pay.customer_name
          IN /\ Len(mine) = 1
             /\ mine[1].transaction_type = "debt"
             /\ mine[1].amount = owed
             /\ \A i \in DOMAIN mine : mine[i].transaction_type # "payment"
             /\ credit_transactions' = credit_transactions \o mine
             /\ \E i \in DOMAIN creditors' :
                  creditors'[i].name = name /\ mine[1].creditor_id = i
             /\ BalanceOf(creditors', name) = BalanceOf(creditors, name) + owed
             /\ OthersUnchanged(creditors, creditors', name)]_vars

(* the partial sale of a customer who already owed something *)
C14_Witness ==
  /\ last.op = "create_sale" /\ last.result = "created"
  /\ last.pay.payment_method = "partial" /\ last.pay.customer_name # NoName
  /\ 0 < last.pay.amount_paid /\ last.pay.amount_paid < last.pay.total_price
  /\ Len(TxOf(credit_transactions, last.sale_id)) = 1
  /\ BalanceOf(creditors, last.pay.customer_name)
       > last.pay.total_price - last.pay.amount_paid

(* C15: every committed sale with payment method credit has a linked debt
   transaction of the full total price, and the creditor found or created by
   the customer name has its balance raised by that total. *)
C15_CreditSaleHasFullDebt ==
  [][(SaleCreated /\ last'.pay.payment_method = "credit")
       => LET mine == TxOf(credit_transactions', last'.sale_id)
              name == last'.pay.customer_name
          IN /\ \E k \in DOMAIN mine :
                  /\ mine[k].transaction_type = "debt"
                  /\ mine[k].amount = last'.pay.total_price
             /\ \E i \in DOMAIN creditors' : creditors'[i].name = name
             /\ BalanceOf(creditors', name)
                  = BalanceOf(creditors, name) + last'.pay.total_price]_vars

(* C16 as stated: a credit sale with an upfront amount_paid > 0 records two
   linked credit transactions, a debt of total_price - amount_paid and a
   payment of amount_paid. *)
C16_Original ==
  [][(/\ SaleCreated
      /\ last'.pay.payment_method = "credit"
      /\ last'.pay.amount_paid > 0)
       => LET mine == TxOf(credit_transactions', last'.sale_id)
          IN /\ Len(mine) = 2
             /\ \E k \in DOMAIN mine :
                  /\ mine[k].transaction_type = "debt"
                  /\ mine[k].amount = last'.pay.total_price - last'.pay.amount_paid
             /\ \E k \in DOMAIN mine :
                  /\ mine[k].transaction_type = "payment"
                  /\ mine[k].amount = last'.pay.amount_paid]_vars

(* C16 amended: a credit sale with a customer name, a positive total price
   and an upfront amount_paid > 0 records two linked credit transactions, a
   debt of the full total_price and a payment of amount_paid, so the
   customer's balance rises by total_price - amount_paid. *)
C16_CreditUpfrontPayment ==
  [][(/\ SaleCreated
      /\ last'.pay.payment_method = "credit"
      /\ last'.pay.customer_name # NoName
      /\ last'.pay.total_price > 0
      /\ last'.pay.amount_paid > 0)
       => LET mine == TxOf(credit_transactions', last'.sale_id)
              name == last'.pay.customer_name
          IN /\ Len(mine) = 2
             /\ mine[1].transaction_type = "debt"
             /\ mine[1].amount = last'.pay.total_price
             /\ mine[2].transaction_type = "payment"
             /\ mine[2].amount = last'.pay.amount_paid
             /\ mine[1].creditor_id = mine[2].creditor_id
             /\ credit_transactions' = credit_transactions \o mine
             /\ BalanceOf(creditors', name)
                  = BalanceOf(creditors, name) + last'.pay.total_price
                      - last'.pay.amount_paid]_vars

C16_Witness ==
  /\ last.op = "create_sale" /\ last.result = "created"
  /\ last.pay.payment_method = "credit" /\ last.pay.customer_name # NoName
  /\ last.pay.amount_paid > 0 /\ last.pay.total_price > last.pay.amount_paid
  /\ Len(TxOf(credit_transactions, last.sale_id)) = 2
  /\ BalanceOf(creditors, last.pay.customer_name)
       = last.pay.total_price - last.pay.amount_paid

(* C19: an accepted return against a credit sale with refund method
   credit_to_account appends one payment transaction of the refund amount
   linked to the sale and sets the customer's balance to
   max(0, balance - refund_amount); for any other payment or refund method
   the creditors and the credit transactions are unchanged. *)
C19_ReturnCreditToAccount ==
  [][(ReturnStep /\ last'.result = "created") =>
       \A i \in DOMAIN sales :
         sales[i].id = last'.sale_id =>
           IF /\ sales[i].payment_method = "credit"
              /\ last'.ret.refund_method = "credit_to_account"
           THEN LET name == sales[i].customer_name
                    left == BalanceOf(creditors, name) - last'.ret.refund_amount
                IN /\ Len(credit_transactions') = Len(credit_transactions) + 1
                   /\ SubSeq(credit_transactions', 1, Len(credit_transactions))
                        = credit_transactions
                   /\ LET t == credit_transactions'[Len(credit_transactions')]
                      IN /\ t.transaction_type = "payment"
                         /\ t.amount = last'.ret.refund_amount
                         /\ t.sale_id = last'.sale_id
                   /\ BalanceOf(creditors', name) = (IF left > 0 THEN left ELSE 0)
                   /\ BalanceOf(creditors', name) >= 0
           ELSE /\ creditors' = creditors
                /\ credit_transactions' = credit_transactions]_vars

(* --------------------------- sale reversal ---------------------------- *)
DeleteAfterSale ==
  /\ ops' = ops + 1
  /\ last'.op = "delete_sale" /\ last'.result = "deleted"
  /\ last.op = "create_sale" /\ last.result = "created"
  /\ last'.sale_id = last.sale_id

BatchNumbers(ms) == {m.batch_number : m \in Range(ms)}

(* C20 as stated: deleting a sale right after it was created removes exactly
   the movements linked to it, and every per-batch balance, the un-batched
   balance and the total stock are what they were before the sale request. *)
C20_Original ==
  [][DeleteAfterSale =>
       /\ movements' = SelectSeq(movements, LAMBDA m : m.sale_id # last.sale_id)
       /\ \A bn \in BatchNumbers(last.pre) \cup BatchNumbers(movements') :
            BatchSum(movements', bn) = BatchSum(last.pre, bn)
       /\ TotalStock(movements', P) = TotalStock(last.pre, P)]_vars

(* C20 amended: deleting a sale right after it was created removes exactly
   the movements linked to it; what is left is the ledger from before the
   request followed only by the Expired movements the sale request wrote, so
   the un-batched balance and the balance of every batch that request did not
   write off are what they were before the sale, and the total is the
   pre-sale total less the expired balances written off. *)
C20_DeleteRestoresLedger ==
  [][DeleteAfterSale =>
       LET pre == last.pre
           written == SubSeq(movements', Len(pre) + 1, Len(movements'))
       IN /\ movements' = SelectSeq(movements, LAMBDA m : m.sale_id # last.sale_id)
          /\ Len(movements') >= Len(pre)
          /\ SubSeq(movements', 1, Len(pre)) = pre
          /\ \A j \in DOMAIN written :
               /\ written[j].reason = "Expired"
               /\ written[j].sale_id = None
               /\ written[j].batch_number # None
               /\ written[j].change < 0
          /\ \A bn \in (BatchNumbers(pre) \cup {None}) \ BatchNumbers(written) :
               BatchSum(movements', bn) = BatchSum(pre, bn)
          /\ TotalStock(movements', P) = TotalStock(pre, P) + SumChange(written)
          /\ written = <<>> => TotalStock(movements', P) = TotalStock(pre, P)]_vars

(* the day advanced, a sale wrote off the expired batch and sold from the
   other one, and was deleted again *)
C20_Witness ==
  /\ last.op = "delete_sale" /\ last.result = "deleted"
  /\ ops = 3 /\ today = 2 /\ next_sale_id = 2 /\ sales = <<>>
  /\ Len(movements) = 3
  /\ movements[3].reason = "Expired"

(* ------------------- sale reversal and the creditor ------------------- *)
DeleteStep == ops' = ops + 1 /\ last'.op = "delete_sale" /\ last'.result = "deleted"

(* every credit transaction of the customer called name is linked to sale_id *)
OnlyTouchedBy(cs, txs, name, sale_id) ==
  \A k \in DOMAIN txs :
    (txs[k].creditor_id \in DOMAIN cs /\ cs[txs[k].creditor_id].name = name)
      => txs[k].sale_id = sale_id

(* C21: deleting a credit or partial sale deletes every credit transaction
   linked to it, and when no other transaction touched the creditor the
   creditor owes again what was owed before the sale, also after a
   credit_to_account return against the sale. *)
C21_DeleteRestoresCreditor ==
  [][DeleteStep =>
       \A i \in DOMAIN sales :
         (sales[i].id = last'.sale_id /\ sales[i].payment_method \in {"credit", "partial"})
           => /\ TxOf(credit_transactions', last'.sale_id) = <<>>
              /\ OnlyTouchedBy(creditors, credit_transactions, sales[i].customer_name,
                               last'.sale_id)
                   => BalanceOf(creditors', sales[i].customer_name)
                        = last.owed[last'.sale_id]]_vars

(* ------------------------- batch balances ----------------------------- *)
(* C28: get_batch_balances returns exactly one record per distinct
   batch_number carried by the product's movements, its balance the signed
   sum of all movements with that batch_number, also of deductions that name
   the batch without repeating its expiry date; movements without a batch
   number make no record. *)
C28_OneRecordPerBatchNumber ==
  LET bs == get_batch_balances(movements, P, TRUE)
  IN /\ \A bn \in BatchNumbers(ProductMovements(movements, P)) \ {None} :
          /\ Cardinality({b \in bs : b.batch_number = bn}) = 1
          /\ \A b \in bs : b.batch_number = bn => b.balance = BatchSum(movements, bn)
     /\ \A b \in bs : b.batch_number # None

(* ----------------------- cost of a sale movement ---------------------- *)
(* the unit cost on the most recent stock-in movement of batch bn; None when
   that movement carries none *)
CapturedCost(ms, bn) ==
  LET ins == {j \in DOMAIN ms : ms[j].product_id = P /\ ms[j].batch_number = bn
                                  /\ ms[j].change > 0}
  IN IF ins = {} THEN None
     ELSE ms[CHOOSE j \in ins : \A k \in ins : k <= j].unit_cost_price

(* C29: every per-batch Sale movement of a created sale carries the unit cost
   captured on its batch's most recent stock-in, or the product's cost price
   when the batch has no captured cost, and the sale's unit selling price. *)
C29_SaleMovementCost ==
  [][SaleCreated =>
       \A i \in DOMAIN movements' :
         (movements'[i].sale_id = last'.sale_id /\ movements'[i].batch_number # None)
           => LET captured == CapturedCost(movements, movements'[i].batch_number)
              IN /\ movements'[i].unit_cost_price
                      = (IF captured # None THEN captured ELSE ProductCostPrice)
                 /\ movements'[i].unit_cost_price # None
                 /\ \A k \in DOMAIN sales' :
                      sales'[k].id = last'.sale_id
                        => movements'[i].unit_selling_price = sales'[k].unit_price]_vars

(* -------------------------- manual deductions ------------------------- *)
RecordStep == ops' = ops + 1 /\ last'.op = "record_movement" /\ last'.pid = P

(* C24: a manual movement with a negative delta (and a reason that admits
   one) larger than the product's total stock after the write-off is rejected
   with the insufficient-stock error and appends nothing to the written-off
   ledger; one of at most the total stock is appended, and the total stays
   non-negative. *)
C24_ManualDeductionBounded ==
  [][(RecordStep /\ last'.qty < 0 /\ last'.result # "invalid_reason") =>
       IF (0 - last'.qty) > TotalStock(PostWriteoff, P)
       THEN /\ last'.result = "insufficient_stock"
            /\ movements' = PostWriteoff
       ELSE /\ last'.result = "created"
            /\ Len(movements') = Len(PostWriteoff) + 1
            /\ SubSeq(movements', 1, Len(PostWriteoff)) = PostWriteoff
            /\ movements'[Len(movements')].change = last'.qty
            /\ TotalStock(movements', P) = TotalStock(PostWriteoff, P) + last'.qty
            /\ TotalStock(movements', P) >= 0]_vars

(* a deduction was refused because the stock it asked for had just been
   written off as expired *)
C24_Witness ==
  /\ last.op = "record_movement" /\ last.result = "insufficient_stock" /\ last.qty < 0
  /\ movements # <<>>
  /\ movements[Len(movements)].reason = "Expired"
  /\ TotalStock(movements, P) = 0
  /\ TotalStock(movements, P) - movements[Len(movements)].change >= 0 - last.qty

(* ----------------------- reasons and their signs ---------------------- *)
(* the sign table of the reasons, by spelling *)
PositiveSpellings == {"Initial Stock", "New Stock", "Restock", " Stock Transfer In "}
NegativeSpellings == {"Expired", " Damaged ", "LOST", "Lost/Stolen", "Write-Off", "spoiled",
                      "Destroyed", "Stock Transfer Out"}
AdjustmentSpellings == {"Stock Count", "Correction", "adjustment", "Inventory Correction"}
ReturnedSpellings == {"Returned", " Returned by customer "}
BlankSpellings == {"   ", ""}
OtherSpellings == {"Not returned", "Sale", "Gift"}

SignTableRejects(reason, delta) ==
  \/ reason \in BlankSpellings
  \/ reason \in PositiveSpellings \cup ReturnedSpellings /\ delta <= 0
  \/ reason \in NegativeSpellings /\ delta >= 0

(* C22: record_movement rejects a movement for its reason exactly when the
   sign table says so: positive-only reasons and reasons beginning with
   'returned' iff delta <= 0, negative-only reasons iff delta >= 0, blank
   reasons always, adjustment and any other non-blank reason never; a
   rejected movement is not appended. *)
C22_SignTable ==
  [][RecordStep =>
       /\ last'.reason \in PositiveSpellings \cup NegativeSpellings \cup AdjustmentSpellings
                             \cup ReturnedSpellings \cup BlankSpellings \cup OtherSpellings
       /\ (last'.result = "invalid_reason") <=> SignTableRejects(last'.reason, last'.qty)
       /\ SignTableRejects(last'.reason, last'.qty) => movements' = PostWriteoff
       /\ last'.reason \in BlankSpellings =>
            \A i \in DOMAIN movements' : movements'[i].reason \notin BlankSpellings]_vars

(* a return with delta zero was refused and a correction of zero was taken *)
C22_Witness ==
  /\ last.op = "record_movement" /\ last.result = "invalid_reason"
  /\ last.reason = " Returned by customer " /\ last.qty = 0
  /\ movements # <<>>
  /\ movements[Len(movements)].reason = "Correction"
  /\ movements[Len(movements)].change = 0

(* C23: every movement whose normalized reason is 'sale' has a strictly
   negative delta: record_movement never accepts such a movement with a
   positive or zero delta. *)
C23_SaleMovementsNegative ==
  \A i \in DOMAIN movements :
    (movements[i].reason \in DOMAIN NormTable /\ Norm(movements[i].reason) = "sale")
      => movements[i].change < 0

(* --------------------------- reported stock --------------------------- *)
ReadStep ==
  /\ ops' = ops + 1
  /\ last'.op \in {"list_products", "update_product"}

(* C25: every response that reports the product's stock reports
   max(0, sum of all its movement deltas); a negative sum is never shown. *)
C25_ReportedStockClamped ==
  [][ReadStep => /\ last'.qty = Max0(TotalStock(movements', P))
                 /\ last'.qty >= 0]_vars

(* C26: the stock figure a response reports equals the sum of
   movement.change over the product's movements in the store the request
   leaves behind. *)
C26_ReportedStockIsLedgerSum ==
  [][ReadStep => last'.qty = TotalStock(movements', P)]_vars

(* ----------------------------- bulk checkout -------------------------- *)
BulkStep == ops' = ops + 1 /\ last'.op = "create_sales_bulk"

(* the positions of the items that were created, in list order *)
CreatedAt(results) ==
  SelectSeq([i \in 1..Len(results) |-> i], LAMBDA i : results[i] = "created")

RECURSIVE SumAmount(_)
SumAmount(txs) == IF txs = <<>> THEN 0 ELSE Head(txs).amount + SumAmount(Tail(txs))

(* what the created items at positions at put on the account of name *)
RECURSIVE CreditDue(_, _, _)
CreditDue(items, at, name) ==
  IF at = <<>> THEN 0
  ELSE (IF /\ items[Head(at)].payment_method = "credit"
           /\ items[Head(at)].customer_name = name
        THEN items[Head(at)].total_price ELSE 0)
       + CreditDue(items, Tail(at), name)

(* C27: a bulk submission runs its items in list order; when item k fails
   the request ends with that error, and the store holds the whole effect
   (sale row, linked movements of the full quantity, credit entries) of every
   created item before k and nothing of item k or a later one; nothing is
   applied in part. *)
C27_BulkSequential ==
  [][BulkStep =>
       LET items == last'.items
           results == last'.results
           k == Len(results)
           at == CreatedAt(results)
           n == Len(at)
           new_sales == SubSeq(sales', Len(sales) + 1, Len(sales'))
           new_moves == SubSeq(movements', Len(movements) + 1, Len(movements'))
           new_txs == SubSeq(credit_transactions', Len(credit_transactions) + 1,
                             Len(credit_transactions'))
           new_ids == {next_sale_id + j - 1 : j \in 1..n}
       IN /\ 1 <= k /\ k <= Len(items)
          /\ \A i \in 1..(k - 1) : results[i] \in {"created", "replay"}
          /\ last'.result = results[k]
          /\ results[k] \in {"created", "replay"} => k = Len(items)
          /\ Len(sales') = Len(sales) + n
          /\ SubSeq(sales', 1, Len(sales)) = sales
          /\ next_sale_id' = next_sale_id + n
          /\ \A j \in 1..n :
               LET it == items[at[j]]
                   mine == Linked(movements', next_sale_id + j - 1)
               IN /\ new_sales[j] = SaleRow(it, next_sale_id + j - 1)
                  /\ mine # <<>>
                  /\ SumChange(mine) = 0 - it.quantity
                  /\ \A x \in DOMAIN mine : mine[x].product_id = it.product_id
                  /\ LET debts == TxOf(credit_transactions', next_sale_id + j - 1)
                     IN IF it.payment_method = "credit" /\ it.customer_name # NoName
                        THEN /\ Len(debts) = 1
                             /\ debts[1].transaction_type = "debt"
                             /\ debts[1].amount = it.total_price
                        ELSE debts = <<>>
          /\ Len(movements') >= Len(movements)
          /\ SubSeq(movements', 1, Len(movements)) = movements
          /\ \A x \in DOMAIN new_moves :
               \/ new_moves[x].sale_id \in new_ids
               \/ new_moves[x].sale_id = None /\ new_moves[x].reason = "Expired"
          /\ Len(credit_transactions') >= Len(credit_transactions)
          /\ SubSeq(credit_transactions', 1, Len(credit_transactions)) = credit_transactions
          /\ \A x \in DOMAIN new_txs : new_txs[x].sale_id \in new_ids
          /\ \A name \in {"Ama", "Kofi"} :
               BalanceOf(creditors', name) = BalanceOf(creditors, name) + CreditDue(items, at, name)
          /\ sale_returns' = sale_returns
          /\ n = 0 => UNCHANGED dbvars]_vars

(* the first item was sold on credit and committed, the second was refused
   after its sale row and movements had been flushed *)
C27_Witness ==
  /\ last.op = "create_sales_bulk"
  /\ last.results = <<"created", "partial_rejected">>
  /\ last.items[1].payment_method = "credit"
  /\ Len(sales) = 1
  /\ Len(credit_transactions) = 1
  /\ Len(Linked(movements, 1)) = 1

(* C30: a replayed create_sale leaves the committed store as it was, as a
   single request and as an item of a bulk submission: whatever a bulk
   request adds belongs to its created items, and an Expired movement it adds
   is of a product a created item sold. *)
C30_ReplayChangesNothing ==
  [][/\ (SaleStep /\ last'.result = "replay") => UNCHANGED dbvars
     /\ BulkStep =>
          LET items == last'.items
              results == last'.results
              created == {i \in DOMAIN results : results[i] = "created"}
          IN /\ created = {} => UNCHANGED dbvars
             /\ \A x \in (Len(movements) + 1)..Len(movements') :
                  \E i \in created : items[i].product_id = movements'[x].product_id]_vars

(* ------------------------ replay before validation ------------------- *)
(* C31: a create_sale whose client_sale_id is already recorded is never an
   error: it returns the recorded sale and stores no sale, whatever the
   stock of the product has become and whatever product or quantity the
   replayed payload names. *)
C31_ReplayNeverAnError ==
  [][(SaleStep /\ last'.csid # None /\ HasClientSaleId(sales, last'.csid)) =>
       /\ last'.result \notin {"not_found", "insufficient_stock", "partial_rejected"}
       /\ last'.result = "replay"
       /\ \E i \in DOMAIN sales : /\ sales[i].client_sale_id = last'.csid
                                  /\ sales[i].id = last'.sale_id
       /\ sales' = sales
       /\ next_sale_id' = next_sale_id]_vars

(* the replay asked for more than the product has left, or for a product
   that does not exist *)
C31_Witness ==
  /\ last.op = "create_sale" /\ last.result = "replay"
  /\ \/ last.qty > TotalStock(movements, P) /\ last.pid = P
     \/ last.pid \notin Products
  /\ \E i \in DOMAIN sales : sales[i].id = last.sale_id /\ sales[i].product_id = P

(* ------------------- partial sale with nothing paid ------------------- *)
(* C32: a committed partial-payment sale with a customer name, a positive
   total and an absent or zero amount_paid has one linked debt transaction of
   the full total price, and the customer's balance rises by the total. *)
C32_PartialNothingPaid ==
  [][(/\ SaleCreated
      /\ last'.pay.payment_method = "partial"
      /\ last'.pay.customer_name # NoName
      /\ last'.pay.total_price > 0
      /\ last'.pay.amount_paid = None)
       => LET mine == TxOf(credit_transactions', last'.sale_id)
              name == last'.pay.customer_name
          IN /\ Len(mine) = 1
             /\ mine[1].transaction_type = "debt"
             /\ mine[1].amount = last'.pay.total_price
             /\ BalanceOf(creditors', name)
                  = BalanceOf(creditors, name) + last'.pay.total_price]_vars

(* ------------------- reversal of a sale without links ----------------- *)
(* the units of sale_id that came back into the stock by returns *)
Restocked(rs, sale_id) ==
  SumReturned(SelectSeq(rs, LAMBDA r : r.sale_id = sale_id /\ r.restock))

(* C33: delete_sale appends one positive 'Sale Reversal' movement of the
   sale's quantity, without batch number, exactly when no movement is linked
   to the sale; otherwise it appends nothing and deletes the linked
   movements.  Either way the product's total stock rises by what the sale
   had taken out on balance: its quantity less the units restocked by
   returns. *)
C33_ReversalFallback ==
  [][DeleteStep =>
       \A i \in DOMAIN sales :
         sales[i].id = last'.sale_id =>
           LET linked == Linked(movements, last'.sale_id)
               reversal == [product_id |-> sales[i].product_id, sale_id |-> None,
                            change |-> sales[i].quantity, reason |-> "Sale Reversal",
                            batch_number |-> None, expiry_date |-> None,
                            unit_cost_price |-> None, unit_selling_price |-> None,
                            location |-> MainStore]
           IN /\ linked = <<>> => movements' = Append(movements, reversal)
              /\ linked # <<>> =>
                   movements' = SelectSeq(movements, LAMBDA m : m.sale_id # last'.sale_id)
              /\ TotalStock(movements', sales[i].product_id)
                   = TotalStock(movements, sales[i].product_id)
                       + sales[i].quantity - Restocked(sale_returns, last'.sale_id)]_vars

(* ------------------ storage failure during the write-off -------------- *)
(* C34: when the storage fails inside writeoff_expired_batches, also during
   the lookup of a batch's unit cost, the surrounding request fails and
   commits nothing; no Expired movement is written without the cost its
   batch's last stock-in carries. *)
C34_WriteoffFailurePropagates ==
  [][(ops' = ops + 1 /\ last'.failed # {}) =>
       /\ last'.result = "error"
       /\ UNCHANGED dbvars
       /\ \A i \in (Len(movements) + 1)..Len(movements') :
            movements'[i].reason = "Expired"
              => movements'[i].unit_cost_price
                   = CapturedCost(movements, movements'[i].batch_number)]_vars

(* ------------- sale, restocking return, then sale reversal ------------ *)
DeleteAfterReturn ==
  /\ ops' = ops + 1
  /\ last'.op = "delete_sale" /\ last'.result = "deleted"
  /\ last.op = "create_return" /\ last.result = "created"
  /\ last.ret.restock
  /\ last.pre # <<>>
  /\ last'.sale_id = last.sale_id

(* C35 as stated: after a sale, a restocking return against it and the
   deletion of that sale, with nothing in between, the product's total stock
   is what it was before the sale request. *)
C35_Original ==
  [][DeleteAfterReturn => TotalStock(movements', P) = TotalStock(last.pre, P)]_vars

(* C35 amended: after a sale, a restocking return against it and the deletion
   of that sale, with nothing in between, no movement linked to the sale is
   left - the Customer Return went with the deductions - and the ledger is the
   one from before the sale request followed only by the Expired movements
   that request wrote: the total is the pre-sale total less the expired
   balances written off, never that total plus the returned quantity, and it
   is the pre-sale total when the request wrote nothing off. *)
C35_ReturnDeletedWithSale ==
  [][DeleteAfterReturn =>
       LET pre == last.pre
           written == SubSeq(movements', Len(pre) + 1, Len(movements'))
       IN /\ \A j \in DOMAIN movements' : movements'[j].sale_id # last.sale_id
          /\ \E j \in DOMAIN movements :
               /\ movements[j].reason = "Customer Return"
               /\ movements[j].sale_id = last.sale_id
               /\ movements[j].change = last.qty
          /\ Len(movements') >= Len(pre)
          /\ SubSeq(movements', 1, Len(pre)) = pre
          /\ \A j \in DOMAIN written :
               /\ written[j].reason = "Expired"
               /\ written[j].change < 0
          /\ TotalStock(movements', P) = TotalStock(pre, P) + SumChange(written)
          /\ written = <<>> => TotalStock(movements', P) = TotalStock(pre, P)]_vars

(* the day advanced, a sale wrote off the expired batch and sold from the
   other one, a unit came back into stock, and the sale was deleted *)
C35_Witness ==
  /\ last.op = "delete_sale" /\ last.result = "deleted"
  /\ ops = 4 /\ today = 2 /\ next_sale_id = 2 /\ sales = <<>>
  /\ Len(sale_returns) = 1
  /\ sale_returns[1].sale_id = last.sale_id
  /\ sale_returns[1].restock
  /\ \E j \in DOMAIN movements : movements[j].reason = "Expired"
  /\ \A j \in DOMAIN movements : movements[j].reason # "Customer Return"

(* --------------------- the un-batched remainder ----------------------- *)
(* C36: a sale's un-batched remainder never exceeds the un-batched stock:
   after a sale the sum of the product's movements that carry no batch number
   is >= 0 if it was >= 0 before the request. *)
C36_UnbatchedNeverOverdrawn ==
  [][(SaleCreated /\ BatchSum(movements, None) >= 0)
       => BatchSum(movements', None) >= 0]_vars

(* ------------------- balance against the transactions ---------------- *)
CreditorTransactions(txs, creditor_id, type) ==
  SelectSeq(txs, LAMBDA t : t.creditor_id = creditor_id /\ t.transaction_type = type)

(* C37: in every reachable state each creditor's total_debt is the sum of its
   debt transactions minus the sum of its payment transactions. *)
C37_BalanceIsLedgerSum ==
  \A i \in DOMAIN creditors :
    creditors[i].total_debt
      = SumAmount(CreditorTransactions(credit_transactions, i, "debt"))
          - SumAmount(CreditorTransactions(credit_transactions, i, "payment"))

(* -------------------- concurrent returns of one sale ------------------ *)
(* C38: whatever the interleaving of two create_return requests against the
   same sale, the committed quantity returned for a sale never exceeds the
   sale's quantity. *)
C38_ConcurrentReturnsBounded ==
  \A k \in DOMAIN sales :
    AlreadyReturned(sale_returns, sales[k].id) <= sales[k].quantity

(* ------------------ concurrent write-offs of one batch ---------------- *)
ExpiredCount(ms, bn) ==
  Len(SelectSeq(ms, LAMBDA m : m.batch_number = bn /\ m.reason = "Expired"))

(* C39: whatever the interleaving of two requests that write off the same
   expired batch, at most one Expired movement is committed for it and the
   batch's committed balance never drops below zero. *)
C39_WriteoffOnce ==
  \A bn \in BatchNumbers(movements) \ {None} :
    /\ ExpiredCount(movements, bn) <= 1
    /\ BatchSum(movements, bn) >= 0

====
